---- MODULE Spec2Model ----
(***************************************************************************)
(* Flowmark: text anchoring and restoration engine, and the Highlighter    *)
(* that owns the in-memory index of highlights.                            *)
(*                                                                         *)
(* Text is a TLA+ string; a character is a string of length 1.  JavaScript *)
(* offsets are 0-based, SubSeq is 1-based.  The typographic quotes of the  *)
(* source (U+201C.., U+2018..) are written with the ASCII stand-ins "{"    *)
(* "}" (double) and "^" (single).                                          *)
(***************************************************************************)
EXTENDS Integers, Sequences, FiniteSets, TLC

-----------------------------------------------------------------------------
(* JavaScript string primitives                                            *)

Min(a, b) == IF a < b THEN a ELSE b

Max(a, b) == IF a > b THEN a ELSE b

\* s.charAt(i), i 0-based; "" outside the string
CharAt(s, i) == IF i >= 0 /\ i < Len(s) THEN SubSeq(s, i + 1, i + 1) ELSE ""

\* s.substring(a, b): both ends clamped to 0..length, swapped when a > b
Substring(s, a, b) ==
    LET ca == Max(0, Min(a, Len(s)))
        cb == Max(0, Min(b, Len(s)))
    IN SubSeq(s, Min(ca, cb) + 1, Max(ca, cb))

\* the characters the regular-expression class \s and trim() treat as space
IsSpace(c) == c \in {" ", "\t", "\n", "\r", "\f"}

IsQuote(c) == c \in {"\"", "'"}

\* number of \s characters of s from offset i on
RECURSIVE SpaceRun(_, _)
SpaceRun(s, i) == IF IsSpace(CharAt(s, i)) THEN 1 + SpaceRun(s, i + 1) ELSE 0

\* s.trim()
RECURSIVE TrimEnd(_)
TrimEnd(s) ==
    IF Len(s) > 0 /\ IsSpace(CharAt(s, Len(s) - 1))
    THEN TrimEnd(SubSeq(s, 1, Len(s) - 1))
    ELSE s

Trim(s) == LET t == TrimEnd(s) IN Substring(t, SpaceRun(t, 0), Len(t))

Upper == <<"A", "B", "C", "D", "E", "F", "G", "H", "I", "J", "K", "L", "M",
           "N", "O", "P", "Q", "R", "S", "T", "U", "V", "W", "X", "Y", "Z">>

Lower == <<"a", "b", "c", "d", "e", "f", "g", "h", "i", "j", "k", "l", "m",
           "n", "o", "p", "q", "r", "s", "t", "u", "v", "w", "x", "y", "z">>

LowerChar(c) ==
    IF \E k \in 1..Len(Upper) : Upper[k] = c
    THEN Lower[CHOOSE k \in 1..Len(Upper) : Upper[k] = c]
    ELSE c

\* s.toLowerCase()
RECURSIVE ToLowerCase(_)
ToLowerCase(s) ==
    IF s = "" THEN "" ELSE LowerChar(Head(s)) \o ToLowerCase(Tail(s))

\* s.indexOf(needle, from); -1 when absent
RECURSIVE IndexOf(_, _, _)
IndexOf(s, needle, from) ==
    IF from + Len(needle) > Len(s)
    THEN IF needle = "" THEN Len(s) ELSE -1
    ELSE IF Substring(s, from, from + Len(needle)) = needle
         THEN from
         ELSE IndexOf(s, needle, from + 1)

\* An endsWith that is true wherever t occurs in s.
Includes(s, t) == \E k \in 0..Len(s) : Substring(s, k, k + Len(t)) = t

EndsWith(s, t) == Len(t) <= Len(s) /\ Substring(s, Len(s) - Len(t), Len(s)) = t

StartsWith(s, t) == Len(t) <= Len(s) /\ Substring(s, 0, Len(t)) = t

-----------------------------------------------------------------------------
(* text-processor: normalizeText, one operator per replace() of the chain  *)

\* .replace(/[“”„‟″‶]/g, '"')
\* .replace(/[‘’‚‛′‵]/g, "'")
RECURSIVE StraightenQuotes(_)
StraightenQuotes(s) ==
    IF s = "" THEN ""
    ELSE LET c == Head(s)
             d == IF c \in {"{", "}"} THEN "\""
                  ELSE IF c = "^" THEN "'" ELSE c
         IN d \o StraightenQuotes(Tail(s))

\* .replace(/[\n\r\t]+/g, ' ')
RECURSIVE NewlinesToSpace(_, _)
NewlinesToSpace(s, i) ==
    IF i >= Len(s) THEN ""
    ELSE IF CharAt(s, i) \in {"\n", "\r", "\t"}
         THEN IF CharAt(s, i + 1) \in {"\n", "\r", "\t"}
              THEN NewlinesToSpace(s, i + 1)
              ELSE " " \o NewlinesToSpace(s, i + 1)
         ELSE CharAt(s, i) \o NewlinesToSpace(s, i + 1)

\* .replace(/([.!?])\s*(?!["'])/g, '$1 ')
\* \s* is greedy and gives one space back when a quote follows the run;
\* with no space to give back the punctuation is left alone.
RECURSIVE SentenceSpacing(_, _)
SentenceSpacing(s, i) ==
    IF i >= Len(s) THEN ""
    ELSE LET c == CharAt(s, i)
             k == SpaceRun(s, i + 1)
             quoteNext == IsQuote(CharAt(s, i + 1 + k))
         IN IF c \in {".", "!", "?"} /\ ~(quoteNext /\ k = 0)
            THEN c \o " " \o
                 SentenceSpacing(s, IF quoteNext THEN i + k ELSE i + 1 + k)
            ELSE c \o SentenceSpacing(s, i + 1)

\* .replace(/([.!?])\s+(["'])/g, '$1 $2')
RECURSIVE SentenceBeforeQuote(_, _)
SentenceBeforeQuote(s, i) ==
    IF i >= Len(s) THEN ""
    ELSE LET c == CharAt(s, i)
             k == SpaceRun(s, i + 1)
             q == CharAt(s, i + 1 + k)
         IN IF c \in {".", "!", "?"} /\ k >= 1 /\ IsQuote(q)
            THEN c \o " " \o q \o SentenceBeforeQuote(s, i + 2 + k)
            ELSE c \o SentenceBeforeQuote(s, i + 1)

\* .replace(/\s*([,;:])\s*(?!["'])/g, '$1 ')
RECURSIVE ListSpacing(_, _)
ListSpacing(s, i) ==
    IF i >= Len(s) THEN ""
    ELSE LET j == SpaceRun(s, i)
             p == CharAt(s, i + j)
             k == SpaceRun(s, i + j + 1)
             quoteNext == IsQuote(CharAt(s, i + j + 1 + k))
         IN IF p \in {",", ";", ":"} /\ ~(quoteNext /\ k = 0)
            THEN p \o " " \o
                 ListSpacing(s, IF quoteNext THEN i + j + k ELSE i + j + 1 + k)
            ELSE CharAt(s, i) \o ListSpacing(s, i + 1)

\* .replace(/([,;:])(["'])/g, '$1$2'): every match is replaced by itself
ListBeforeQuote(s) == s

\* A collapse that replaces each pair of spaces by one space.
RECURSIVE CollapsePairs(_, _)
CollapsePairs(s, i) ==
    IF i >= Len(s) THEN ""
    ELSE IF IsSpace(CharAt(s, i)) /\ IsSpace(CharAt(s, i + 1))
         THEN " " \o CollapsePairs(s, i + 2)
         ELSE CharAt(s, i) \o CollapsePairs(s, i + 1)

\* .replace(/\s+/g, ' ')
RECURSIVE CollapseSpaces(_, _)
CollapseSpaces(s, i) ==
    IF i >= Len(s) THEN ""
    ELSE IF IsSpace(CharAt(s, i))
         THEN " " \o CollapseSpaces(s, i + SpaceRun(s, i))
         ELSE CharAt(s, i) \o CollapseSpaces(s, i + 1)

normalizeTextWith(text, preserveSpacing, preserveCase) ==
    LET q == StraightenQuotes(text)
        n == NewlinesToSpace(q, 0)
        a == SentenceSpacing(n, 0)
        b == SentenceBeforeQuote(a, 0)
        c == ListSpacing(b, 0)
        d == ListBeforeQuote(c)
        e == CollapseSpaces(d, 0)
        Cased(t) == IF preserveCase THEN t ELSE ToLowerCase(t)
        Trimmed(t) == Cased(IF preserveSpacing THEN t ELSE Trim(t))
    IN Trimmed(e)

\* normalizeText(text) with the default options
normalizeText(text) == normalizeTextWith(text, FALSE, FALSE)

-----------------------------------------------------------------------------
(* text-processor: findTextPosition, validateTextMatch, computeSimilarity  *)

NoPosition == [found |-> FALSE]

findTextPosition(haystack, needle, startOffset) ==
    LET Position(normalizedNeedle, index) ==
            IF index = -1
            THEN NoPosition
            ELSE [found |-> TRUE, startOffset |-> index,
                  endOffset |-> index + Len(normalizedNeedle)]
        Find(normalizedHaystack, normalizedNeedle) ==
            Position(normalizedNeedle,
                     IndexOf(normalizedHaystack, normalizedNeedle, startOffset))
    IN Find(normalizeText(haystack), normalizeText(needle))

validateTextMatch(text, searchText, prefix, suffix) ==
    LET Validate(normalizedText, normalizedSearch, normalizedPrefix,
                 normalizedSuffix) ==
          LET Check(position) ==
                IF ~position.found THEN FALSE
                ELSE IF normalizedPrefix = "" /\ normalizedSuffix = "" THEN TRUE
                ELSE
                  LET startOffset == position.startOffset
                      endOffset == position.endOffset
                      prefixStart ==
                          Max(0, startOffset - Len(normalizedPrefix) - 5)
                      actualPrefix ==
                          Trim(Substring(normalizedText, prefixStart,
                                         startOffset))
                      prefixMatch ==
                          IF normalizedPrefix # ""
                          THEN EndsWith(actualPrefix, normalizedPrefix)
                               \/ actualPrefix = normalizedPrefix
                          ELSE TRUE
                      suffixEnd == Min(Len(normalizedText),
                                       endOffset + Len(normalizedSuffix) + 5)
                      actualSuffix ==
                          Trim(Substring(normalizedText, endOffset, suffixEnd))
                      suffixMatch ==
                          IF normalizedSuffix # ""
                          THEN StartsWith(actualSuffix, normalizedSuffix)
                               \/ actualSuffix = normalizedSuffix
                          ELSE TRUE
                  IN prefixMatch /\ suffixMatch
          IN Check(findTextPosition(normalizedText, normalizedSearch, 0))
    IN Validate(normalizeText(text), normalizeText(searchText),
                Trim(normalizeTextWith(prefix, TRUE, FALSE)),
                Trim(normalizeTextWith(suffix, TRUE, FALSE)))

\* one row of the dp matrix from the row above it (prev = dp[i-1][0..n])
RECURSIVE LevRow(_, _, _, _, _)
LevRow(prev, c, str2, j, acc) ==
    IF j > Len(str2) THEN acc
    ELSE LET cost == IF c = CharAt(str2, j - 1) THEN 0 ELSE 1
             v == Min(Min(prev[j + 1] + 1, acc[j] + 1), prev[j] + cost)
         IN LevRow(prev, c, str2, j + 1, Append(acc, v))

RECURSIVE LevRows(_, _, _, _)
LevRows(prev, str1, str2, i) ==
    IF i > Len(str1) THEN prev
    ELSE LevRows(LevRow(prev, CharAt(str1, i - 1), str2, 1, <<i>>),
                 str1, str2, i + 1)

\* A distance that only counts the difference of the lengths.
lengthDifference(str1, str2) ==
    Max(Len(str1), Len(str2)) - Min(Len(str1), Len(str2))

levenshteinDistance(str1, str2) ==
    LET m == Len(str1)
        n == Len(str2)
    IN IF m = 0 THEN n
       ELSE IF n = 0 THEN m
       ELSE LevRows([j \in 1..(n + 1) |-> j - 1], str1, str2, 1)[n + 1]

\* A similarity 1 - distance / maxLen is the fraction num / den.
One == [num |-> 1, den |-> 1]

computeSimilarity(str1, str2) ==
    LET Similarity(s1, s2) ==
          LET maxLen == Max(Len(s1), Len(s2))
          IN IF s1 = s2 THEN One
             ELSE IF maxLen = 0 THEN One
             ELSE [num |-> maxLen - levenshteinDistance(s1, s2),
                   den |-> maxLen]
    IN Similarity(normalizeText(str1), normalizeText(str2))

\* a >= b, a > b and a = b on similarities
SimGeq(a, b) == a.num * b.den >= b.num * a.den

SimGt(a, b) == a.num * b.den > b.num * a.den

SimEq(a, b) == a.num * b.den = b.num * a.den

\* const threshold = 0.8
threshold == [num |-> 4, den |-> 5]

-----------------------------------------------------------------------------
(* The container's DOM.  A document is the sequence of its text nodes in   *)
(* document order; a text node carries its data, the block element (<p>)   *)
(* it lies in and the chain of <mark> elements around it, outermost first. *)
(* A boundary point is (node index, offset); a Range is two of them.       *)

TextNode(t, p) == [text |-> t, par |-> p, marks |-> <<>>]

\* container.textContent of the nodes lo..hi
RECURSIVE ConcatText(_, _, _)
ConcatText(dom, lo, hi) ==
    IF lo > hi THEN "" ELSE dom[lo].text \o ConcatText(dom, lo + 1, hi)

textContent(dom) == ConcatText(dom, 1, Len(dom))

\* the chain of elements between the container and a text node
PathOf(n) == <<<<"p", n.par>>>> \o [k \in 1..Len(n.marks) |-> <<"mark", n.marks[k].el>>]

RECURSIVE CommonPrefixLen(_, _, _)
CommonPrefixLen(p, q, k) ==
    IF k < Len(p) /\ k < Len(q) /\ p[k + 1] = q[k + 1]
    THEN CommonPrefixLen(p, q, k + 1)
    ELSE k

HasPrefix(p, q, k) == Len(p) >= k /\ SubSeq(p, 1, k) = SubSeq(q, 1, k)

RECURSIVE TextUnder(_, _, _, _)
TextUnder(dom, path, k, i) ==
    IF i > Len(dom) THEN ""
    ELSE (IF HasPrefix(PathOf(dom[i]), path, k) THEN dom[i].text ELSE "")
         \o TextUnder(dom, path, k, i + 1)

\* range.commonAncestorContainer.textContent
CommonAncestorText(dom, range) ==
    IF range.sn = range.en
    THEN dom[range.sn].text
    ELSE LET p == PathOf(dom[range.sn])
             k == CommonPrefixLen(p, PathOf(dom[range.en]), 0)
         IN TextUnder(dom, p, k, 1)

\* range.toString()
RangeText(dom, range) ==
    IF range.sn = range.en
    THEN Substring(dom[range.sn].text, range.so, range.eo)
    ELSE Substring(dom[range.sn].text, range.so, Len(dom[range.sn].text))
         \o ConcatText(dom, range.sn + 1, range.en - 1)
         \o Substring(dom[range.en].text, 0, range.eo)

\* boundary point a is before boundary point b in document order
PointBefore(an, ao, bn, bo) == an < bn \/ (an = bn /\ ao < bo)

-----------------------------------------------------------------------------
(* text-processor: getTextContext                                          *)

getTextContext(dom, range, charsBefore, charsAfter) ==
    LET fullText == CommonAncestorText(dom, range)
        startOffset == range.so
        endOffset == range.eo
    IN [prefix |-> Substring(fullText, Max(0, startOffset - charsBefore),
                             startOffset),
        suffix |-> Substring(fullText, endOffset,
                             Min(Len(fullText), endOffset + charsAfter))]

-----------------------------------------------------------------------------
(* highlight-restorer                                                      *)

NoRange == [ok |-> FALSE]

\* the textNodes array: the nodes of normalized length > 0 with their offsets
RECURSIVE TextNodeEntries(_, _, _)
TextNodeEntries(dom, k, currentOffset) ==
    IF k > Len(dom) THEN <<>>
    ELSE LET Entry(normalizedLength) ==
                 IF normalizedLength > 0
                 THEN <<[node |-> k, offset |-> currentOffset,
                         length |-> normalizedLength]>>
                      \o TextNodeEntries(dom, k + 1,
                                         currentOffset + normalizedLength)
                 ELSE TextNodeEntries(dom, k + 1, currentOffset)
         IN Entry(Len(normalizeText(dom[k].text)))

createRangeFromCharacterOffsets(dom, startOffset, endOffset) ==
    LET Locate(textNodes) ==
          LET isStart(e) ==
                  startOffset >= e.offset /\ startOffset < e.offset + e.length
              isEnd(e) == endOffset > e.offset /\ endOffset <= e.offset + e.length
              starts == {i \in 1..Len(textNodes) : isStart(textNodes[i])}
              ends == {i \in 1..Len(textNodes) : isEnd(textNodes[i])}
              Between(s, e) ==
                LET startNodeOffset == startOffset - s.offset
                    endNodeOffset == endOffset - e.offset
                IN \* setStart / setEnd throw IndexSizeError past the node's data
                   IF startNodeOffset > Len(dom[s.node].text)
                      \/ endNodeOffset > Len(dom[e.node].text)
                   THEN NoRange
                   \* setEnd before the start collapses the range onto the end
                   ELSE IF PointBefore(e.node, endNodeOffset,
                                       s.node, startNodeOffset)
                   THEN [ok |-> TRUE, sn |-> e.node, so |-> endNodeOffset,
                         en |-> e.node, eo |-> endNodeOffset]
                   ELSE [ok |-> TRUE, sn |-> s.node, so |-> startNodeOffset,
                         en |-> e.node, eo |-> endNodeOffset]
          IN IF starts = {} \/ ends = {} THEN NoRange
             ELSE Between(
                    textNodes[CHOOSE i \in starts : \A j \in starts : i <= j],
                    textNodes[CHOOSE i \in ends : \A j \in ends : i <= j])
    IN Locate(TextNodeEntries(dom, 1, 0))

RECURSIVE ExactLoop(_, _, _, _)
ExactLoop(dom, highlight, normalizedContainerText, searchStartIndex) ==
    LET Advance(position, range) ==
            IF range.ok THEN range
            ELSE ExactLoop(dom, highlight, normalizedContainerText,
                           position.endOffset + 1)
        Try(position) ==
            IF ~position.found THEN NoRange
            ELSE Advance(position,
                      IF validateTextMatch(normalizedContainerText,
                             highlight.normalizedText,
                             highlight.prefix, highlight.suffix)
                      THEN createRangeFromCharacterOffsets(dom,
                               position.startOffset, position.endOffset)
                      ELSE NoRange)
    IN IF ~(searchStartIndex < Len(normalizedContainerText)) THEN NoRange
       ELSE Try(findTextPosition(normalizedContainerText,
                                 highlight.normalizedText, searchStartIndex))

findTextInDOM(dom, highlight, normalizedContainerText) ==
    ExactLoop(dom, highlight, normalizedContainerText, 0)

NoMatch == [found |-> FALSE, returns |-> TRUE]

\* The for loop never exits: its condition reads i alone and i += 0.
LoopForever == [found |-> FALSE, returns |-> FALSE]

RECURSIVE FuzzyLoop(_, _, _, _, _)
FuzzyLoop(dom, highlight, normalizedContainerText, i, bestMatch) ==
    LET chunkSize == Len(highlight.normalizedText)
        chunkStep == chunkSize \div 4
        Keep(similarity, range) ==
            IF range.ok /\ (~bestMatch.found
                            \/ SimGt(similarity, bestMatch.confidence))
            THEN [found |-> TRUE, returns |-> TRUE, range |-> range,
                  confidence |-> similarity]
            ELSE bestMatch
        Window(similarity) ==
            Keep(similarity,
                 IF SimGeq(similarity, threshold)
                 THEN createRangeFromCharacterOffsets(dom, i, i + chunkSize)
                 ELSE NoRange)
        Step(next) ==
            IF chunkStep = 0 THEN LoopForever
            ELSE FuzzyLoop(dom, highlight, normalizedContainerText,
                           i + chunkStep, next)
    IN IF ~(i < Len(normalizedContainerText) - chunkSize) THEN bestMatch
       ELSE Step(Window(computeSimilarity(highlight.normalizedText,
                     Substring(normalizedContainerText, i, i + chunkSize))))

findTextWithFuzzyMatching(dom, highlight, normalizedContainerText) ==
    FuzzyLoop(dom, highlight, normalizedContainerText, 0, NoMatch)

\* A call that does not return is the value NeverReturns.
NeverReturns == [returns |-> FALSE]

restoreHighlight(dom, highlight) ==
    LET Fuzzy(fuzzyRange) ==
            IF ~fuzzyRange.returns THEN NeverReturns
            ELSE IF fuzzyRange.found
            THEN [returns |-> TRUE, success |-> TRUE,
                  range |-> fuzzyRange.range,
                  confidence |-> fuzzyRange.confidence]
            ELSE [returns |-> TRUE, success |-> FALSE,
                  error |-> "Text not found in container"]
        Exact(normalizedContainerText, range) ==
            IF range.ok
            THEN [returns |-> TRUE, success |-> TRUE, range |-> range,
                  confidence |-> One]
            ELSE Fuzzy(findTextWithFuzzyMatching(dom, highlight,
                                                 normalizedContainerText))
        Search(normalizedContainerText) ==
            Exact(normalizedContainerText,
                  findTextInDOM(dom, highlight, normalizedContainerText))
    IN Search(normalizeText(textContent(dom)))

\* The results Map, in insertion order: set() of a key already present
\* replaces its value in place.
MapSet(m, id, v) ==
    IF \E k \in 1..Len(m) : m[k].id = id
    THEN [k \in 1..Len(m) |-> IF m[k].id = id THEN [id |-> id, value |-> v]
                              ELSE m[k]]
    ELSE Append(m, [id |-> id, value |-> v])

MapHas(m, id) == \E k \in 1..Len(m) : m[k].id = id

MapGet(m, id) == m[CHOOSE k \in 1..Len(m) : m[k].id = id].value

RECURSIVE RestoreEach(_, _, _, _)
RestoreEach(dom, highlights, k, results) ==
    IF k > Len(highlights) THEN [returns |-> TRUE, results |-> results]
    ELSE LET Set(result) ==
                 IF ~result.returns THEN NeverReturns
                 ELSE RestoreEach(dom, highlights, k + 1,
                                  MapSet(results, highlights[k].id, result))
         IN Set(restoreHighlight(dom, highlights[k]))

restoreHighlights(dom, highlights) == RestoreEach(dom, highlights, 1, <<>>)

-----------------------------------------------------------------------------
(* dom-renderer: getTextNodesInRange                                       *)

IsBlank(t) == Trim(t) = ""

\* An entry whose offsets are those of the whole node.
NodeInfoOfWholeNode(dom, range, k) ==
    [node |-> k, isFirst |-> k = range.sn, isLast |-> k = range.en,
     startOffset |-> 0, endOffset |-> Len(dom[k].text)]

NodeInfo(dom, range, k) ==
    [node |-> k, isFirst |-> k = range.sn, isLast |-> k = range.en,
     startOffset |-> IF k = range.sn THEN range.so ELSE 0,
     endOffset |-> IF k = range.en THEN range.eo ELSE Len(dom[k].text)]

RECURSIVE CollectNodes(_, _, _, _)
CollectNodes(dom, range, keep, k) ==
    IF k > Len(dom) THEN <<>>
    ELSE (IF k \in keep THEN <<NodeInfo(dom, range, k)>> ELSE <<>>)
         \o CollectNodes(dom, range, keep, k + 1)

getTextNodesFallback(dom, range) ==
    IF range.sn = range.en
    THEN <<[node |-> range.sn, isFirst |-> TRUE, isLast |-> TRUE,
            startOffset |-> range.so, endOffset |-> range.eo]>>
    ELSE CollectNodes(dom, range,
             {k \in range.sn..range.en : ~IsBlank(dom[k].text)}, 1)

getTextNodesInRange(dom, range) ==
    LET accepted == {k \in 1..Len(dom) :
                       /\ ~IsBlank(dom[k].text)
                       \* the range ends after the node starts ...
                       /\ PointBefore(k, 0, range.en, range.eo)
                       \* ... and starts before the node ends
                       /\ PointBefore(range.sn, range.so, k, Len(dom[k].text))}
        textNodes == CollectNodes(dom, range, accepted, 1)
    IN IF Len(textNodes) = 0 THEN getTextNodesFallback(dom, range)
       ELSE textNodes

\* renderHighlightMarks throws: only 'No text nodes found in range'
RenderThrows(dom, range) ==
    range.sn # range.en /\ Len(getTextNodesInRange(dom, range)) = 0

-----------------------------------------------------------------------------
(* dom-renderer: renderHighlightMarks and unwrapHighlight                  *)

\* partIndex of a mark created without one
NoPart == -1

createMarkElement(highlightId, color, partIndex, el) ==
    [id |-> highlightId, color |-> color, part |-> partIndex, el |-> el]

\* Range.surroundContents(mark) for the range (k, s) .. (k, e) of one text
\* node: the node keeps the text before s, the mark takes the text s .. e and
\* a new text node after the mark takes the rest.
surroundContents(dom, k, s, e, mark) ==
    LET t == dom[k].text
    IN SubSeq(dom, 1, k - 1)
       \o <<[dom[k] EXCEPT !.text = Substring(t, 0, s)],
            [dom[k] EXCEPT !.text = Substring(t, s, e),
                           !.marks = Append(@, mark)],
            [dom[k] EXCEPT !.text = Substring(t, e, Len(t))]>>
       \o SubSeq(dom, k + 1, Len(dom))

\* A boundary point of another live Range after surroundContents at (k, s, e)
MovePoint(n, o, w) ==
    IF n < w.k THEN <<n, o>>
    ELSE IF n > w.k THEN <<n + 2, o>>
    ELSE IF o <= w.s THEN <<n, o>>
    ELSE IF o <= w.e THEN <<n, w.s>>
    ELSE <<n + 2, o - w.e>>

RECURSIVE MoveRange(_, _, _)
MoveRange(range, wraps, i) ==
    IF i > Len(wraps) THEN range
    ELSE LET a == MovePoint(range.sn, range.so, wraps[i])
             b == MovePoint(range.en, range.eo, wraps[i])
         IN MoveRange([ok |-> TRUE, sn |-> a[1], so |-> a[2],
                       en |-> b[1], eo |-> b[2]], wraps, i + 1)

\* textNodes.forEach((nodeInfo, index) => ...): one mark per text node; the
\* nodes wrapped so far have each put two more nodes before the next one.
\* failing holds the indices whose nodeRange.surroundContents(mark) throws:
\* the catch logs it, and the mark is not pushed.
RECURSIVE WrapEach(_, _, _, _, _, _, _, _)
WrapEach(dom, textNodes, index, highlightId, color, el, wraps, failing) ==
    IF index >= Len(textNodes)
    THEN [threw |-> FALSE, dom |-> dom, wraps |-> wraps]
    ELSE LET nodeInfo == textNodes[index + 1]
             k == nodeInfo.node + 2 * Len(wraps)
             s == IF nodeInfo.isFirst THEN nodeInfo.startOffset ELSE 0
             e == IF nodeInfo.isLast THEN nodeInfo.endOffset
                  ELSE Len(dom[k].text)
             mark == createMarkElement(highlightId, color, index, el + index)
         IN IF index \in failing
            THEN WrapEach(dom, textNodes, index + 1, highlightId, color, el,
                          wraps, failing)
            ELSE WrapEach(surroundContents(dom, k, s, e, mark), textNodes,
                          index + 1, highlightId, color, el,
                          Append(wraps, [k |-> k, s |-> s, e |-> e,
                                         mark |-> mark]),
                          failing)

\* the forEach of renderHighlightMarks with its try/catch per segment
renderSegments(dom, textNodes, highlightId, color, el, failing) ==
    WrapEach(dom, textNodes, 0, highlightId, color, el, <<>>, failing)

\* A single-node rendering whose mark carries a part index.
renderSingleAsPart(dom, range, highlightId, color, el) ==
    [threw |-> FALSE,
     dom |-> surroundContents(dom, range.sn, range.so, range.eo,
                 createMarkElement(highlightId, color, 0, el)),
     wraps |-> <<[k |-> range.sn, s |-> range.so, e |-> range.eo,
                  mark |-> createMarkElement(highlightId, color, 0, el)]>>]

\* the simple case of renderHighlightMarks: range.surroundContents(mark)
renderSingle(dom, range, highlightId, color, el) ==
    [threw |-> FALSE,
     dom |-> surroundContents(dom, range.sn, range.so, range.eo,
                 createMarkElement(highlightId, color, NoPart, el)),
     wraps |-> <<[k |-> range.sn, s |-> range.so, e |-> range.eo,
                  mark |-> createMarkElement(highlightId, color, NoPart,
                                             el)]>>]

\* el is the number of mark elements created so far; the result carries the
\* new DOM and the wraps made, each with the mark returned for it, or
\* threw = TRUE with the DOM as it was.
renderHighlightMarksWith(dom, range, highlightId, color, el, failing) ==
    IF range.sn = range.en
    THEN renderSingle(dom, range, highlightId, color, el)
    ELSE LET textNodes == getTextNodesInRange(dom, range)
         IN IF Len(textNodes) = 0
            THEN [threw |-> TRUE, dom |-> dom, wraps |-> <<>>]
            ELSE renderSegments(dom, textNodes, highlightId, color, el,
                                failing)

\* no surroundContents throws
renderHighlightMarks(dom, range, highlightId, color, el) ==
    renderHighlightMarksWith(dom, range, highlightId, color, el, {})

\* root.querySelectorAll('mark[data-highlight-id=...]'): the mark elements
\* tagged with highlightId, in document order
RECURSIVE getHighlightElements(_, _, _, _, _)
getHighlightElements(dom, highlightId, k, d, found) ==
    IF k > Len(dom) THEN found
    ELSE IF d > Len(dom[k].marks)
    THEN getHighlightElements(dom, highlightId, k + 1, 1, found)
    ELSE LET mark == dom[k].marks[d]
             seen == \E j \in 1..Len(found) : found[j] = mark.el
         IN getHighlightElements(dom, highlightId, k, d + 1,
                IF mark.id = highlightId /\ ~seen
                THEN Append(found, mark.el) ELSE found)

\* the text nodes under the mark element el
NodesUnder(dom, el) ==
    {k \in 1..Len(dom) : \E d \in 1..Len(dom[k].marks) : dom[k].marks[d].el = el}

\* parent.replaceChild(document.createTextNode(mark.textContent), mark):
\* every text node under the mark, nested marks included, becomes one text
\* node in the mark's parent
replaceChild(dom, el) ==
    LET under == NodesUnder(dom, el)
        lo == CHOOSE k \in under : \A j \in under : k <= j
        hi == CHOOSE k \in under : \A j \in under : k >= j
        d == CHOOSE j \in 1..Len(dom[lo].marks) : dom[lo].marks[j].el = el
    IN SubSeq(dom, 1, lo - 1)
       \o <<[text |-> ConcatText(dom, lo, hi), par |-> dom[lo].par,
             marks |-> SubSeq(dom[lo].marks, 1, d - 1)]>>
       \o SubSeq(dom, hi + 1, Len(dom))

\* A parent.normalize() that merges nothing.
leaveSplit(dom, par, chain, i, out) == dom

\* parent.normalize(), parent being the element with the chain of marks
\* `chain` in paragraph par: adjacent text nodes are merged and empty text
\* nodes removed; an element left without text keeps one empty node here.
RECURSIVE normalize(_, _, _, _, _)
normalize(dom, par, chain, i, out) ==
    IF i > Len(dom) THEN out
    ELSE
      LET n == dom[i]
          inside == n.par = par /\ HasPrefix(n.marks, chain, Len(chain))
          prev == out[Len(out)]
      IN IF ~inside THEN normalize(dom, par, chain, i + 1, Append(out, n))
         ELSE IF Len(out) > 0 /\ prev.par = par /\ prev.marks = n.marks
         THEN normalize(dom, par, chain, i + 1,
                  [out EXCEPT ![Len(out)].text = @ \o n.text])
         ELSE IF n.text = "" /\ n.marks = chain
         THEN normalize(dom, par, chain, i + 1, out)
         ELSE normalize(dom, par, chain, i + 1, Append(out, n))

\* marks.forEach(...): a mark that an earlier replacement has detached from
\* the container is replaced in its detached parent, which shows nowhere
RECURSIVE UnwrapEach(_, _, _)
UnwrapEach(dom, marks, i) ==
    IF i > Len(marks) THEN dom
    ELSE IF NodesUnder(dom, marks[i]) = {} THEN UnwrapEach(dom, marks, i + 1)
    ELSE LET k == CHOOSE j \in NodesUnder(dom, marks[i]) : TRUE
             d == CHOOSE j \in 1..Len(dom[k].marks) :
                      dom[k].marks[j].el = marks[i]
             parent == SubSeq(dom[k].marks, 1, d - 1)
         IN UnwrapEach(normalize(replaceChild(dom, marks[i]), dom[k].par,
                                 parent, 1, <<>>),
                       marks, i + 1)

\* An unwrapHighlight that leaves the marks in place.
keepMarks(dom, highlightId) == dom

unwrapHighlight(dom, highlightId) ==
    UnwrapEach(dom, getHighlightElements(dom, highlightId, 1, 1, <<>>), 1)

-----------------------------------------------------------------------------
(* JavaScript values of an anchor.  A field of a record holds a value of   *)
(* the type its declaration gives it, unless the record's typeof component *)
(* names another kind of value for that field: "NaN" and "number" are      *)
(* numbers, "null" is the null object, "undefined" is a property that is   *)
(* present with the value undefined.                                       *)

\* most calls of the Highlighter's public methods
MaxCalls == 2

\* the fields validateHighlight requires, with the typeof it requires
RequiredFields ==
    [id |-> "string", text |-> "string", normalizedText |-> "string",
     startOffset |-> "number", endOffset |-> "number", prefix |-> "string",
     suffix |-> "string", createdAt |-> "string",
     isCrossElement |-> "boolean"]

KindsOf(record) ==
    IF "typeof" \in DOMAIN record THEN record.typeof ELSE <<>>

\* typeof record[field]
typeof(record, field) ==
    IF field \notin DOMAIN record THEN "undefined"
    ELSE IF field \in DOMAIN KindsOf(record)
    THEN CASE KindsOf(record)[field] = "NaN" -> "number"
           [] KindsOf(record)[field] = "null" -> "object"
           [] OTHER -> KindsOf(record)[field]
    ELSE IF field \in DOMAIN RequiredFields THEN RequiredFields[field]
    ELSE "string"

\* {...a, ...b}
Merge(a, b) ==
    LET Spread(fields, kinds) ==
          [f \in fields \cup (IF kinds = {} THEN {} ELSE {"typeof"}) |->
              IF f = "typeof"
              THEN [g \in kinds |-> IF g \in DOMAIN b THEN KindsOf(b)[g]
                                    ELSE KindsOf(a)[g]]
              ELSE IF f \in DOMAIN b THEN b[f] ELSE a[f]]
        Kinds(fields) ==
          Spread(fields,
                 {f \in fields : IF f \in DOMAIN b
                                 THEN f \in DOMAIN KindsOf(b)
                                 ELSE f \in DOMAIN KindsOf(a)})
    IN Kinds((DOMAIN a \cup DOMAIN b) \ {"typeof"})

\* JSON.parse(JSON.stringify(record)): a property that is undefined is left
\* out, NaN is written as null
JsonValue(record) ==
    LET Written(keep, kinds) ==
          [f \in keep \cup (IF kinds = {} THEN {} ELSE {"typeof"}) |->
              IF f = "typeof"
              THEN [g \in kinds |-> IF KindsOf(record)[g] = "NaN" THEN "null"
                                    ELSE KindsOf(record)[g]]
              ELSE record[f]]
        Kept(keep) == Written(keep, keep \cap DOMAIN KindsOf(record))
    IN Kept({f \in DOMAIN record \ {"typeof"} :
                typeof(record, f) # "undefined"})

\* JSON.parse(JSON.stringify(list))
Json(list) == [k \in 1..Len(list) |-> JsonValue(list[k])]

\* the values of Date.now() and new Date(): the calls made so far
Times == 0..MaxCalls

\* new Date(s) of a string that is no date
InvalidDate == -1

\* Date.prototype.toISOString of a valid date
toISOString(date) == "T" \o ToString(date)

\* new Date(s)
newDate(s) ==
    IF \E t \in Times : toISOString(t) = s
    THEN CHOOSE t \in Times : toISOString(t) = s
    ELSE InvalidDate

-----------------------------------------------------------------------------
(* Highlighter: the anchor createHighlight builds from a Range             *)

\* const { prefix, suffix } = getTextContext(range, 32, 32)
ContextChars == 32

\* The note is not modelled; now is the value of new Date().
BuildHighlight(dom, range, id, color, now) ==
    LET Highlight(text, ctx) ==
    [id |-> id,
        text |-> text,
        normalizedText |-> normalizeText(text),
        startOffset |-> 0,
        endOffset |-> Len(text),
        prefix |-> normalizeText(ctx.prefix),
        suffix |-> normalizeText(ctx.suffix),
        color |-> color,
        createdAt |-> now,
        isCrossElement |-> range.sn # range.en]
    IN Highlight(RangeText(dom, range),
                 getTextContext(dom, range, ContextChars, ContextChars))

\* updatedAt: highlight.updatedAt?.toISOString() is undefined for a
\* highlight that was never updated
highlightToStored(highlight) ==
    Merge([id |-> highlight.id,
           text |-> highlight.text,
           normalizedText |-> highlight.normalizedText,
           startOffset |-> highlight.startOffset,
           endOffset |-> highlight.endOffset,
           prefix |-> highlight.prefix,
           suffix |-> highlight.suffix,
           color |-> highlight.color,
           createdAt |-> toISOString(highlight.createdAt),
           isCrossElement |-> highlight.isCrossElement],
          IF "updatedAt" \in DOMAIN highlight
          THEN [updatedAt |-> toISOString(highlight.updatedAt)]
          ELSE [updatedAt |-> "", typeof |-> [updatedAt |-> "undefined"]])

-----------------------------------------------------------------------------
(* LocalStorageAdapter: the list persisted under the storage key           *)

validateHighlight(highlight) ==
    \A f \in DOMAIN RequiredFields :
        typeof(highlight, f) = RequiredFields[f]

\* load(): JSON.parse of the item, the valid entries
load(data) == SelectSeq(data, validateHighlight)

\* highlights.findIndex(h => h.id === id), 0 when there is none
findIndex(list, id) ==
    IF \E k \in 1..Len(list) : list[k].id = id
    THEN CHOOSE k \in 1..Len(list) :
             list[k].id = id /\ \A j \in 1..(k - 1) : list[j].id # id
    ELSE 0

-----------------------------------------------------------------------------
(* The storage adapters' methods as functions of what is stored: a call    *)
(* that is awaited returns [rejected, error, store], store being what is   *)
(* stored when it has settled.  item is the parsed value of the            *)
(* localStorage item, m the MemoryStorageAdapter's Map.                     *)

Resolved(store) == [rejected |-> FALSE, error |-> "none", store |-> store]

Rejected(error, store) ==
    [rejected |-> TRUE, error |-> error, store |-> store]

\* Map.prototype.delete
MapDelete(m, id) ==
    LET keep(e) == e.id # id IN SelectSeq(m, keep)

\* MemoryStorageAdapter.load: Array.from(this.highlights.values())
memory_load(m) == [k \in 1..Len(m) |-> m[k].value]

memory_save(m, highlight) ==
    IF ~validateHighlight(highlight)
    THEN Rejected("Invalid highlight data", m)
    ELSE Resolved(MapSet(m, highlight.id, highlight))

memory_update(m, id, data, time) ==
    IF ~MapHas(m, id)
    THEN Rejected("not found", m)
    ELSE Resolved(MapSet(m, id,
                         Merge(Merge(MapGet(m, id), data),
                               [id |-> id,
                                updatedAt |-> toISOString(time)])))

\* A MemoryStorageAdapter.remove that resolves for an id that is not stored.
memory_removeSilently(m, id) == Resolved(MapDelete(m, id))

memory_remove(m, id) ==
    IF ~MapHas(m, id)
    THEN Rejected("not found", m)
    ELSE Resolved(MapDelete(m, id))

memory_clear(m) == Resolved(<<>>)

\* LocalStorageAdapter.load
local_load(item) == load(item)

local_save(item, highlight) ==
    IF ~validateHighlight(highlight)
    THEN Rejected("Invalid highlight data", item)
    ELSE Resolved(Json(Append(load(item), highlight)))

local_update(item, id, data, time) ==
    IF findIndex(load(item), id) = 0
    THEN Rejected("not found", item)
    ELSE Resolved(Json([load(item) EXCEPT ![findIndex(load(item), id)] =
                           Merge(Merge(@, data),
                                 [id |-> id,
                                  updatedAt |-> toISOString(time)])]))

local_remove(item, id) ==
    LET keep(h) == h.id # id
    IN IF Len(SelectSeq(load(item), keep)) = Len(load(item))
       THEN Rejected("not found", item)
       ELSE Resolved(Json(SelectSeq(load(item), keep)))

\* localStorage.removeItem: load() then finds no item and returns []
local_clear(item) == Resolved(<<>>)

-----------------------------------------------------------------------------
(* Highlighter                                                             *)

\* config.defaultColor
defaultColor == "#ffeb3b"

generateHighlightId(n) == "h" \o ToString(n)

\* the Highlight createHighlightFromStored returns; its call of
\* renderHighlightMarks is made by LoadEach
createHighlightFromStored(stored) ==
    Merge([id |-> stored.id,
           text |-> stored.text,
           normalizedText |-> stored.normalizedText,
           startOffset |-> stored.startOffset,
           endOffset |-> stored.endOffset,
           prefix |-> stored.prefix,
           suffix |-> stored.suffix,
           color |-> stored.color,
           createdAt |-> newDate(stored.createdAt),
           isCrossElement |-> stored.isCrossElement],
          IF typeof(stored, "updatedAt") = "string"
          THEN [updatedAt |-> newDate(stored.updatedAt)]
          ELSE <<>>)

\* the ranges of the results are live: they follow the wraps of a rendering
MoveAll(results, wraps) ==
    [k \in 1..Len(results) |->
        IF results[k].value.success
        THEN [results[k] EXCEPT !.value.range = MoveRange(@, wraps, 1)]
        ELSE results[k]]

\* A loadHighlights that puts every stored anchor into the index, restored
\* and rendered or not.
RECURSIVE LoadEveryAnchor(_, _, _, _, _, _)
LoadEveryAnchor(dom, index, stored, results, i, el) ==
    IF i > Len(results)
    THEN [returns |-> TRUE, dom |-> dom, highlights |-> index, elements |-> el]
    ELSE LoadEveryAnchor(dom,
             MapSet(index, results[i].id,
                    createHighlightFromStored(
                        stored[findIndex(stored, results[i].id)])),
             stored, results, i + 1, el)

\* for (const [id, result] of results) { ... }
RECURSIVE LoadEach(_, _, _, _, _, _)
LoadEach(dom, index, stored, results, i, el) ==
    IF i > Len(results)
    THEN [returns |-> TRUE, dom |-> dom, highlights |-> index, elements |-> el]
    ELSE
      LET id == results[i].id
          result == results[i].value
          found == findIndex(stored, id)
      IN IF ~result.success \/ ~result.range.ok \/ found = 0
         THEN LoadEach(dom, index, stored, results, i + 1, el)
         ELSE
           LET storedHighlight == stored[found]
               rendered == renderHighlightMarks(dom, result.range, id,
                               storedHighlight.color, el)
           IN IF rendered.threw
              THEN LoadEach(dom, index, stored, results, i + 1, el)
              ELSE LoadEach(rendered.dom,
                       MapSet(index, id,
                              createHighlightFromStored(storedHighlight)),
                       stored, MoveAll(results, rendered.wraps), i + 1,
                       el + Len(rendered.wraps))

loadHighlights(dom, index, stored, el) ==
    LET Render(results) ==
            IF ~results.returns THEN NeverReturns
            ELSE LoadEach(dom, index, stored, results.results, 1, el)
    IN Render(restoreHighlights(dom, stored))

-----------------------------------------------------------------------------
(* The restorer on its own: a document, an anchor persisted for it (built  *)
(* by createHighlight from a selection, or stored earlier for a document   *)
(* that has changed since), an edit of the document, and the calls of      *)
(* restoreHighlight / restoreHighlights on them.                           *)

VARIABLES doc, anchor, origin, result, before, edit, batch, stage

(* The functions of the text processor on their own:                       *)
(*   args           the function called last and its arguments             *)
(*   returned       what the call returned                                 *)
VARIABLES args, returned

textVars == <<args, returned>>

restoreVars ==
    <<doc, anchor, origin, result, before, edit, batch, stage, textVars>>

(* The Highlighter with its container and its storage adapter:             *)
(*   container      the DOM under the container element                    *)
(*   highlights     Highlighter.highlights, the in-memory index (a Map)    *)
(*   isInitialized  Highlighter.isInitialized                              *)
(*   storage        the list persisted under the adapter's storage key     *)
(*   tasks          the queue of continuations waiting behind an await     *)
(*   notified       the calls made to onHighlight / onRemove / onUpdate    *)
(*   errors         the number of console.error calls                      *)
(*   created        the number of ids generateHighlightId has handed out   *)
(*   elements       the number of <mark> elements created                  *)
(*   issued         the number of calls made to the other public methods   *)
(*   hung           a call is running that never returns                   *)
(*   last           the outcome of the call that completed last            *)
(*   inits          the number of calls made to init()                     *)
(*   listeners      the calls of setupEventListeners whose handlers are    *)
(*                  registered on the container and the document           *)
(*   boundHandlers  the call of setupEventListeners whose handlers         *)
(*                  EventManager.boundHandlers holds, 0 when it is empty   *)
VARIABLES container, highlights, isInitialized, storage, tasks, notified,
          errors, created, elements, issued, hung, last, inits,
          listeners, boundHandlers

eventVars == <<listeners, boundHandlers>>

highlighterVars ==
    <<container, highlights, isInitialized, storage, tasks, notified,
      errors, created, elements, issued, hung, last, inits, eventVars>>

(* The storage adapters on their own:                                      *)
(*   memory           MemoryStorageAdapter.highlights (a Map)              *)
(*   pendingRequests  PostMessageAdapter.pendingRequests, the request ids  *)
(*                    that have an entry                                   *)
(*   requests         the promises sendRequest has returned, oldest first  *)
VARIABLES memory, pendingRequests, requests

postVars == <<pendingRequests, requests>>

adapterVars == <<memory, postVars>>

vars == <<restoreVars, highlighterVars, adapterVars>>

\* the value of new Date()
now == issued + inits

\* most text nodes of a document
MaxNodes == 2

NodeTexts == {"x abcd", "xabcd", "yabcd", "abxde"}

\* longest selection, in characters
MaxSelection == 4

\* the text nodes an edit inserts
EditTexts == {"z ", "zz"}

Documents ==
    UNION {[1..n -> NodeTexts] : n \in 1..MaxNodes}

DocOf(texts) == [k \in 1..Len(texts) |-> TextNode(texts[k], k)]

\* longest text node, in characters
MaxNodeLen == 6

\* the non-collapsed ranges with both boundary points in text nodes
RangesOf(dom) ==
    {r \in [ok : {TRUE}, sn : 1..Len(dom), so : 0..MaxNodeLen,
            en : 1..Len(dom), eo : 0..MaxNodeLen] :
        /\ r.so <= Len(dom[r.sn].text)
        /\ r.eo <= Len(dom[r.en].text)
        /\ PointBefore(r.sn, r.so, r.en, r.eo)
        /\ Len(RangeText(dom, r)) <= MaxSelection}

\* anchors persisted before the document changed
StoredAnchors ==
    {[id |-> "h0", text |-> t, normalizedText |-> t, startOffset |-> 0,
      endOffset |-> Len(t), prefix |-> p, suffix |-> "", color |-> "yellow",
      isCrossElement |-> FALSE] :
        t \in {"", "q", "ab", "abc", "abcd", "abcde"}, p \in {"", "x"}}

None == [returns |-> FALSE, none |-> TRUE]

RestoreInit ==
    /\ doc \in {DocOf(t) : t \in Documents}
    /\ anchor = None
    /\ origin = NoRange
    /\ result = None
    /\ before = None
    /\ edit = "none"
    /\ batch = None
    /\ stage = "idle"
    /\ container = <<>>
    /\ highlights = <<>>
    /\ isInitialized = FALSE
    /\ storage = <<>>
    /\ tasks = <<>>
    /\ notified = <<>>
    /\ errors = 0
    /\ created = 0
    /\ elements = 0
    /\ issued = 0
    /\ inits = 0
    /\ memory = <<>>
    /\ args = [f |-> "none"]
    /\ returned = [f |-> "none"]
    /\ listeners = {}
    /\ boundHandlers = 0
    /\ pendingRequests = {}
    /\ requests = <<>>
    /\ hung = FALSE
    /\ last = [op |-> "none"]

\* createHighlight on a selection, up to the anchor it persists
Capture(r) ==
    /\ stage = "idle"
    /\ ~RenderThrows(doc, r)
    /\ anchor' = highlightToStored(BuildHighlight(doc, r, "h1", defaultColor, 0))
    /\ origin' = r
    /\ stage' = "anchored"
    /\ UNCHANGED <<doc, result, before, edit, batch>>
    /\ UNCHANGED <<highlighterVars, adapterVars, textVars>>

\* an anchor persisted for an earlier version of the document
Forge(a) ==
    /\ stage = "idle"
    /\ anchor' = a
    /\ stage' = "anchored"
    /\ UNCHANGED <<doc, origin, result, before, edit, batch>>
    /\ UNCHANGED <<highlighterVars, adapterVars, textVars>>

\* restoreHighlight(container, anchor)
Restore ==
    /\ stage \in {"anchored", "edited"}
    /\ result' = restoreHighlight(doc, anchor)
    /\ stage' = IF stage = "anchored" THEN "restored" ELSE "rerestored"
    /\ UNCHANGED <<doc, anchor, origin, before, edit, batch>>
    /\ UNCHANGED <<highlighterVars, adapterVars, textVars>>

\* the document gains a text node, in a block of its own, before or after
\* everything else
InsertText(t, atEnd) ==
    /\ stage = "restored"
    /\ result.returns
    /\ origin.ok
    /\ doc' = IF atEnd
              THEN Append(doc, TextNode(t, Len(doc) + 1))
              ELSE <<TextNode(t, 0)>> \o doc
    /\ before' = result
    /\ edit' = "insert"
    /\ stage' = "edited"
    /\ UNCHANGED <<anchor, origin, result, batch>>
    /\ UNCHANGED <<highlighterVars, adapterVars, textVars>>

\* the selected text is deleted from the document
DeleteSelected ==
    /\ stage = "restored"
    /\ result.returns
    /\ origin.ok
    /\ doc' = [k \in 1..Len(doc) |->
                 [doc[k] EXCEPT !.text =
                    IF k < origin.sn \/ k > origin.en THEN @
                    ELSE IF origin.sn = origin.en
                    THEN Substring(@, 0, origin.so)
                         \o Substring(@, origin.eo, Len(@))
                    ELSE IF k = origin.sn THEN Substring(@, 0, origin.so)
                    ELSE IF k = origin.en THEN Substring(@, origin.eo, Len(@))
                    ELSE ""]]
    /\ before' = result
    /\ edit' = "delete"
    /\ stage' = "edited"
    /\ UNCHANGED <<anchor, origin, result, batch>>
    /\ UNCHANGED <<highlighterVars, adapterVars, textVars>>

\* the other anchor of a batch
Second ==
    [id |-> "h2", text |-> "abcd", normalizedText |-> "abcd", startOffset |-> 0,
     endOffset |-> 4, prefix |-> "", suffix |-> "", color |-> "yellow",
     isCrossElement |-> FALSE]

\* restoreHighlights(container, [anchor, second]) or [second, anchor]
RestoreBatch(second, first) ==
    /\ stage = "anchored"
    /\ LET Batch(input) ==
               [input |-> input, output |-> restoreHighlights(doc, input)]
       IN batch' = Batch(IF first THEN <<second, anchor>>
                         ELSE <<anchor, second>>)
    /\ stage' = "batched"
    /\ UNCHANGED <<doc, anchor, origin, result, before, edit>>
    /\ UNCHANGED <<highlighterVars, adapterVars, textVars>>

RestoreNext ==
    \/ \E r \in RangesOf(doc) : Capture(r)
    \/ \E a \in StoredAnchors : Forge(a)
    \/ Restore
    \/ \E t \in EditTexts, atEnd \in BOOLEAN : InsertText(t, atEnd)
    \/ DeleteSelected
    \/ \E first \in BOOLEAN : RestoreBatch(Second, first)

SpecRestore == RestoreInit /\ [][RestoreNext]_vars

-----------------------------------------------------------------------------
(* The Highlighter at work.  A method runs up to its first await in the    *)
(* step that calls it; what follows an await is queued in tasks and runs   *)
(* in a later step, the oldest continuation first.  LocalStorageAdapter's  *)
(* save, update and remove read the list when called (await this.load())   *)
(* and write it in their continuation, where setItem can throw.            *)

\* the page: two paragraphs of one text node each
Page == <<TextNode("abcd efgh", 1), TextNode("ijkl", 2)>>

Stored(id, text, prefix) ==
    [id |-> id, text |-> text, normalizedText |-> text, startOffset |-> 0,
     endOffset |-> Len(text), prefix |-> prefix, suffix |-> "",
     color |-> "yellow", createdAt |-> toISOString(0),
     isCrossElement |-> FALSE]

\* what storage can hold when the page is opened
StoredLists ==
    {<<>>,
     <<Stored("s1", "efgh", "abcd")>>,
     <<Stored("s1", "wxyz", ""), Stored("s2", "ghij", "")>>,
     <<Stored("s1", "abcd", ""), Stored("s2", "cd ef", ""),
       Stored("s3", "wxyz", "")>>,
     <<Stored("s1", "wx", "")>>}

\* the passages a caller selects, as spans of the page's text: a word, a
\* passage across words, a passage across paragraphs, the space between
\* two words
Spans == {<<0, 4>>, <<2, 7>>, <<7, 11>>, <<4, 5>>}

\* the text node holding the character after offset a (before offset b)
RECURSIVE NodeAt(_, _, _, _, _)
NodeAt(dom, offset, isEnd, k, seen) ==
    IF k > Len(dom) THEN <<0, 0>>
    ELSE LET len == Len(dom[k].text)
         IN IF (~isEnd /\ offset >= seen /\ offset < seen + len)
               \/ (isEnd /\ offset > seen /\ offset <= seen + len)
            THEN <<k, offset - seen>>
            ELSE NodeAt(dom, offset, isEnd, k + 1, seen + len)

\* the Range of the selection of the span
Selection(dom, span) ==
    LET a == NodeAt(dom, span[1], FALSE, 1, 0)
        b == NodeAt(dom, span[2], TRUE, 1, 0)
    IN [ok |-> TRUE, sn |-> a[1], so |-> a[2], en |-> b[1], eo |-> b[2]]

\* updates of updateHighlight
Updates == {[color |-> "green"], [id |-> "h2"]}

\* the ids a caller passes: the tracked ones, and stale ones
Ids == {"s1", "h1", "h2"}

Init ==
    /\ container = Page
    /\ highlights = <<>>
    /\ isInitialized = FALSE
    /\ storage \in StoredLists
    /\ tasks = <<>>
    /\ notified = <<>>
    /\ errors = 0
    /\ created = 0
    /\ elements = 0
    /\ issued = 0
    /\ inits = 0
    /\ memory = <<>>
    /\ args = [f |-> "none"]
    /\ returned = [f |-> "none"]
    /\ listeners = {}
    /\ boundHandlers = 0
    /\ pendingRequests = {}
    /\ requests = <<>>
    /\ hung = FALSE
    /\ last = [op |-> "none"]
    /\ doc = <<>>
    /\ anchor = None
    /\ origin = NoRange
    /\ result = None
    /\ before = None
    /\ edit = "none"
    /\ batch = None
    /\ stage = "off"

\* a call is no longer alone once another call is made before it completes
Overlapped(queue) ==
    [k \in 1..Len(queue) |->
        IF "outer" \in DOMAIN queue[k]
        THEN [queue[k] EXCEPT !.call.alone = FALSE, !.outer.alone = FALSE]
        ELSE IF "call" \in DOMAIN queue[k]
        THEN [queue[k] EXCEPT !.call.alone = FALSE]
        ELSE queue[k]]

Call(op, id, value) ==
    [op |-> op, id |-> id, value |-> value, before |-> highlights,
     seen |-> Len(notified), alone |-> tasks = <<>>]

CanCall == ~hung /\ issued + inits < MaxCalls

\* EventManager.setupEventListeners(): the handlers of the n-th call are
\* added to the container and the document
setupEventListeners(registered, n) == registered \cup {n}

\* EventManager.teardownEventListeners(): the handlers that boundHandlers
\* holds are removed
teardownEventListeners(registered, bound) == registered \ {bound}

\* init(), up to await this.storage.load()
init ==
    /\ CanCall
    /\ inits' = inits + 1
    /\ tasks' = IF isInitialized THEN tasks
                ELSE Append(Overlapped(tasks),
                            [t |-> "loadHighlights", stored |-> load(storage)])
    /\ listeners' = IF isInitialized THEN listeners
                    ELSE setupEventListeners(listeners, inits + 1)
    /\ boundHandlers' = IF isInitialized THEN boundHandlers ELSE inits + 1
    /\ UNCHANGED <<container, highlights, isInitialized, storage, notified,
                   errors, created, elements, issued, hung, last>>
    /\ UNCHANGED <<restoreVars, adapterVars>>

\* the ids of the stored anchors that restoreHighlight fails to restore
FailedIds(dom, stored) ==
    {stored[k].id : k \in {j \in 1..Len(stored) :
                              ~restoreHighlight(dom, stored[j]).success}}

\* init() from await this.loadHighlights(stored), the call included
initLoadHighlights ==
    /\ ~hung
    /\ tasks # <<>>
    /\ Head(tasks).t = "loadHighlights"
    /\ LET Loaded(loaded) ==
             IF ~loaded.returns
             THEN /\ hung' = TRUE
                  /\ UNCHANGED <<container, highlights, elements, tasks, last>>
             ELSE /\ container' = loaded.dom
                  /\ highlights' = loaded.highlights
                  /\ elements' = loaded.elements
                  /\ tasks' = Append(Tail(tasks), [t |-> "initialized"])
                  /\ last' = [op |-> "load",
                              failed |-> FailedIds(container,
                                                   Head(tasks).stored)]
                  /\ UNCHANGED hung
       IN Loaded(loadHighlights(container, highlights, Head(tasks).stored,
                                elements))
    /\ UNCHANGED <<isInitialized, storage, notified, errors, created, issued, inits>>
    /\ UNCHANGED <<restoreVars, adapterVars, eventVars>>

\* init(): this.isInitialized = true
initDone ==
    /\ ~hung
    /\ tasks # <<>>
    /\ Head(tasks).t = "initialized"
    /\ isInitialized' = TRUE
    /\ tasks' = Tail(tasks)
    /\ UNCHANGED <<container, highlights, storage, notified, errors, created,
                   elements, issued, inits, hung, last>>
    /\ UNCHANGED <<restoreVars, adapterVars, eventVars>>

\* createHighlight(range), up to await this.storage.save(...): the call of
\* save runs to its own await this.load()
createHighlight(range) ==
    /\ CanCall
    /\ issued' = issued + 1
    /\ UNCHANGED inits
    /\ created' = created + 1
    /\ LET id == generateHighlightId(created + 1)
           Create(highlight, rendered) ==
             IF rendered.threw
             THEN UNCHANGED <<container, highlights, elements, tasks>>
             ELSE /\ container' = rendered.dom
                  /\ elements' = elements + Len(rendered.wraps)
                  /\ highlights' = MapSet(highlights, id, highlight)
                  /\ tasks' = Append(Overlapped(tasks),
                        IF validateHighlight(highlightToStored(highlight))
                        THEN [t |-> "save", snapshot |-> load(storage),
                              highlight |-> highlightToStored(highlight),
                              call |-> Call("create", id, highlight)]
                        ELSE [t |-> "saved", rejected |-> TRUE,
                              call |-> Call("create", id, highlight)])
       IN Create(BuildHighlight(container, range, id, defaultColor, now),
                 renderHighlightMarks(container, range, id, defaultColor,
                                      elements))
    /\ UNCHANGED <<isInitialized, storage, notified, errors, hung, last>>
    /\ UNCHANGED <<restoreVars, adapterVars, eventVars>>

\* LocalStorageAdapter.save after await this.load(): push and setItem,
\* which throws when the quota is exceeded
save(quotaExceeded) ==
    /\ ~hung
    /\ tasks # <<>>
    /\ Head(tasks).t = "save"
    /\ storage' = IF quotaExceeded THEN storage
                  ELSE Json(Append(Head(tasks).snapshot,
                                   Head(tasks).highlight))
    /\ tasks' = Append(Tail(tasks),
                       [t |-> "saved", rejected |-> quotaExceeded,
                        call |-> Head(tasks).call])
    /\ UNCHANGED <<container, highlights, isInitialized, notified, errors,
                   created, elements, issued, inits, hung, last>>
    /\ UNCHANGED <<restoreVars, adapterVars, eventVars>>

\* the outcome of a completed call
Outcome(task) ==
    [op |-> task.call.op, id |-> task.call.id, rejected |-> task.rejected,
     alone |-> task.call.alone, unchanged |-> highlights = task.call.before]

\* createHighlight after await this.storage.save(...)
createHighlightDone ==
    /\ ~hung
    /\ tasks # <<>>
    /\ Head(tasks).t = "saved"
    /\ errors' = IF Head(tasks).rejected THEN errors + 1 ELSE errors
    /\ notified' = Append(notified, <<"onHighlight", Head(tasks).call.id>>)
    /\ last' = Outcome(Head(tasks))
    /\ tasks' = Tail(tasks)
    /\ UNCHANGED <<container, highlights, isInitialized, storage, created,
                   elements, issued, inits, hung>>
    /\ UNCHANGED <<restoreVars, adapterVars, eventVars>>

\* A removeHighlight without the early return for an id that is not tracked.
removeHighlightUnguarded(id) ==
    /\ CanCall
    /\ issued' = issued + 1
    /\ UNCHANGED inits
    /\ container' = unwrapHighlight(container, id)
    /\ highlights' = MapDelete(highlights, id)
    /\ tasks' = Append(Overlapped(tasks),
          [t |-> "remove", snapshot |-> load(storage), id |-> id,
           call |-> Call("remove", id, id)])
    /\ last' = [op |-> "remove", id |-> id, rejected |-> FALSE,
                alone |-> tasks = <<>>, unchanged |-> FALSE,
                tracked |-> MapHas(highlights, id)]
    /\ UNCHANGED <<isInitialized, storage, notified, errors, created,
                   elements, hung>>
    /\ UNCHANGED <<restoreVars, adapterVars, eventVars>>

\* removeHighlight(id), up to await this.storage.remove(id); for an id that
\* is not tracked it returns at once
removeHighlight(id) ==
    /\ CanCall
    /\ issued' = issued + 1
    /\ UNCHANGED inits
    /\ IF ~MapHas(highlights, id)
       THEN /\ last' = [op |-> "remove", id |-> id, rejected |-> FALSE,
                        alone |-> tasks = <<>>, unchanged |-> TRUE,
                        tracked |-> FALSE]
            /\ UNCHANGED <<container, highlights, tasks>>
       ELSE /\ container' = unwrapHighlight(container, id)
            /\ highlights' = MapDelete(highlights, id)
            /\ tasks' = Append(Overlapped(tasks),
                  [t |-> "remove", snapshot |-> load(storage), id |-> id,
                   call |-> Call("remove", id, MapGet(highlights, id))])
            /\ UNCHANGED last
    /\ UNCHANGED <<isInitialized, storage, notified, errors, created,
                   elements, hung>>
    /\ UNCHANGED <<restoreVars, adapterVars, eventVars>>

\* LocalStorageAdapter.remove after await this.load()
remove(quotaExceeded) ==
    /\ ~hung
    /\ tasks # <<>>
    /\ Head(tasks).t = "remove"
    /\ LET highlightsRead == Head(tasks).snapshot
           keep(h) == h.id # Head(tasks).id
           filtered == SelectSeq(highlightsRead, keep)
           notFound == Len(filtered) = Len(highlightsRead)
       IN /\ storage' = IF notFound \/ quotaExceeded THEN storage
                        ELSE Json(filtered)
          /\ tasks' = Append(Tail(tasks),
                         IF "outer" \in DOMAIN Head(tasks)
                         THEN [t |-> "removed",
                               rejected |-> notFound \/ quotaExceeded,
                               call |-> Head(tasks).call,
                               rest |-> Head(tasks).rest,
                               outer |-> Head(tasks).outer]
                         ELSE [t |-> "removed",
                               rejected |-> notFound \/ quotaExceeded,
                               call |-> Head(tasks).call])
    /\ UNCHANGED <<container, highlights, isInitialized, notified, errors,
                   created, elements, issued, inits, hung, last>>
    /\ UNCHANGED <<restoreVars, adapterVars, eventVars>>

\* removeHighlight after await this.storage.remove(id)
removeHighlightDone ==
    /\ ~hung
    /\ tasks # <<>>
    /\ Head(tasks).t = "removed"
    /\ errors' = IF Head(tasks).rejected THEN errors + 1 ELSE errors
    /\ notified' = Append(notified, <<"onRemove", Head(tasks).call.id>>)
    /\ last' = Outcome(Head(tasks))
    /\ tasks' = IF "outer" \in DOMAIN Head(tasks)
                THEN Append(Tail(tasks),
                            [t |-> "clearAllNext", rest |-> Head(tasks).rest,
                             call |-> Head(tasks).outer])
                ELSE Tail(tasks)
    /\ UNCHANGED <<container, highlights, isInitialized, storage, created,
                   elements, issued, inits, hung>>
    /\ UNCHANGED <<restoreVars, adapterVars, eventVars>>

\* An updateHighlight that leaves the entry of the index as it was.
updateWithoutMerge(id, updates) ==
    /\ CanCall
    /\ issued' = issued + 1
    /\ UNCHANGED inits
    /\ MapHas(highlights, id)
    /\ tasks' = Append(Overlapped(tasks),
          [t |-> "update", snapshot |-> load(storage), id |-> id,
           data |-> highlightToStored(MapGet(highlights, id)),
           call |-> Call("update", id, MapGet(highlights, id))])
    /\ UNCHANGED <<container, highlights, isInitialized, storage, notified,
                   errors, created, elements, hung, last>>
    /\ UNCHANGED <<restoreVars, adapterVars, eventVars>>

\* updateHighlight(id, updates), up to await this.storage.update(...);
\* for an id that is not tracked it throws
updateHighlight(id, updates) ==
    /\ CanCall
    /\ issued' = issued + 1
    /\ UNCHANGED inits
    /\ IF ~MapHas(highlights, id)
       THEN /\ last' = [op |-> "update", id |-> id, rejected |-> FALSE,
                        alone |-> tasks = <<>>, unchanged |-> TRUE,
                        threw |-> TRUE]
            /\ UNCHANGED <<highlights, tasks>>
       ELSE LET updated == Merge(Merge(MapGet(highlights, id), updates),
                                 [updatedAt |-> now])
            IN /\ highlights' = MapSet(highlights, id, updated)
               /\ tasks' = Append(Overlapped(tasks),
                     [t |-> "update", snapshot |-> load(storage), id |-> id,
                      data |-> highlightToStored(updated),
                      call |-> Call("update", id, updated)])
               /\ UNCHANGED last
    /\ UNCHANGED <<container, isInitialized, storage, notified, errors,
                   created, elements, hung>>
    /\ UNCHANGED <<restoreVars, adapterVars, eventVars>>

\* LocalStorageAdapter.update after await this.load()
update(quotaExceeded) ==
    /\ ~hung
    /\ tasks # <<>>
    /\ Head(tasks).t = "update"
    /\ LET highlightsRead == Head(tasks).snapshot
           id == Head(tasks).id
           index == findIndex(highlightsRead, id)
           notFound == index = 0
       IN /\ storage' =
               IF notFound \/ quotaExceeded THEN storage
               ELSE Json([highlightsRead EXCEPT ![index] =
                            Merge(Merge(@, Head(tasks).data),
                                  [id |-> id,
                                   updatedAt |-> toISOString(now)])])
          /\ tasks' = Append(Tail(tasks),
                         [t |-> "updated",
                          rejected |-> notFound \/ quotaExceeded,
                          call |-> Head(tasks).call])
    /\ UNCHANGED <<container, highlights, isInitialized, notified, errors,
                   created, elements, issued, inits, hung, last>>
    /\ UNCHANGED <<restoreVars, adapterVars, eventVars>>

\* updateHighlight after await this.storage.update(...)
updateHighlightDone ==
    /\ ~hung
    /\ tasks # <<>>
    /\ Head(tasks).t = "updated"
    /\ errors' = IF Head(tasks).rejected THEN errors + 1 ELSE errors
    /\ notified' = Append(notified, <<"onUpdate", Head(tasks).call.id,
                                      Head(tasks).call.value>>)
    /\ last' = Outcome(Head(tasks))
    /\ tasks' = Tail(tasks)
    /\ UNCHANGED <<container, highlights, isInitialized, storage, created,
                   elements, issued, inits, hung>>
    /\ UNCHANGED <<restoreVars, adapterVars, eventVars>>

\* Array.from(this.highlights.keys())
keys(m) == [k \in 1..Len(m) |-> m[k].id]

\* A clearAllHighlights that clears the storage without removing the
\* tracked highlights.
clearStorageOnly(ids, call, queue) ==
    /\ storage' = <<>>
    /\ tasks' = Append(queue, [t |-> "cleared", call |-> call])
    /\ UNCHANGED <<container, highlights>>

\* clearAllHighlights from the head of its for loop, ids being the ids that
\* are left: await this.removeHighlight(id), which runs up to its own
\* await this.storage.remove(id), or after the loop await
\* this.storage.clear(), whose removeItem is done when clear() is called
clearStep(ids, call, queue) ==
    IF ids = <<>>
    THEN /\ storage' = <<>>
         /\ tasks' = Append(queue, [t |-> "cleared", call |-> call])
         /\ UNCHANGED <<container, highlights>>
    ELSE IF ~MapHas(highlights, Head(ids))
    THEN /\ tasks' = Append(queue, [t |-> "clearAllNext", rest |-> Tail(ids),
                                    call |-> call])
         /\ UNCHANGED <<container, highlights, storage>>
    ELSE /\ container' = unwrapHighlight(container, Head(ids))
         /\ highlights' = MapDelete(highlights, Head(ids))
         /\ tasks' = Append(queue,
               [t |-> "remove", snapshot |-> load(storage), id |-> Head(ids),
                call |-> [op |-> "remove", id |-> Head(ids),
                          value |-> MapGet(highlights, Head(ids)),
                          before |-> highlights, seen |-> Len(notified),
                          alone |-> call.alone],
                rest |-> Tail(ids), outer |-> call])
         /\ UNCHANGED storage

\* clearAllHighlights(), up to its first await
clearAllHighlights ==
    /\ CanCall
    /\ issued' = issued + 1
    /\ UNCHANGED inits
    /\ clearStep(keys(highlights),
                 [op |-> "clearAll", ids |-> keys(highlights),
                  before |-> highlights, seen |-> Len(notified),
                  alone |-> tasks = <<>>],
                 Overlapped(tasks))
    /\ UNCHANGED <<isInitialized, notified, errors, created, elements, hung,
                   last>>
    /\ UNCHANGED <<restoreVars, adapterVars, eventVars>>

\* clearAllHighlights after await this.removeHighlight(id)
clearAllNext ==
    /\ ~hung
    /\ tasks # <<>>
    /\ Head(tasks).t = "clearAllNext"
    /\ clearStep(Head(tasks).rest, Head(tasks).call, Tail(tasks))
    /\ UNCHANGED <<isInitialized, notified, errors, created, elements,
                   issued, inits, hung, last>>
    /\ UNCHANGED <<restoreVars, adapterVars, eventVars>>

\* clearAllHighlights after await this.storage.clear()
clearAllHighlightsDone ==
    /\ ~hung
    /\ tasks # <<>>
    /\ Head(tasks).t = "cleared"
    /\ last' = [op |-> "clearAll", ids |-> Head(tasks).call.ids,
                seen |-> Head(tasks).call.seen,
                alone |-> Head(tasks).call.alone]
    /\ tasks' = Tail(tasks)
    /\ UNCHANGED <<container, highlights, isInitialized, storage, notified,
                   errors, created, elements, issued, inits, hung>>
    /\ UNCHANGED <<restoreVars, adapterVars, eventVars>>

\* destroy(): the marks in the container are left where they are
destroy ==
    /\ CanCall
    /\ issued' = issued + 1
    /\ listeners' = teardownEventListeners(listeners, boundHandlers)
    /\ boundHandlers' = 0
    /\ highlights' = <<>>
    /\ isInitialized' = FALSE
    /\ tasks' = Overlapped(tasks)
    /\ last' = [op |-> "destroy", rejected |-> FALSE, alone |-> tasks = <<>>]
    /\ UNCHANGED <<container, storage, notified, errors, created, elements,
                   hung, inits>>
    /\ UNCHANGED <<restoreVars, adapterVars>>

Next ==
    \/ init
    \/ initLoadHighlights
    \/ initDone
    \/ \E span \in Spans : createHighlight(Selection(container, span))
    \/ \E quotaExceeded \in BOOLEAN : save(quotaExceeded)
    \/ createHighlightDone
    \/ \E id \in Ids : removeHighlight(id)
    \/ \E quotaExceeded \in BOOLEAN : remove(quotaExceeded)
    \/ removeHighlightDone
    \/ \E id \in Ids, updates \in Updates : updateHighlight(id, updates)
    \/ \E quotaExceeded \in BOOLEAN : update(quotaExceeded)
    \/ updateHighlightDone
    \/ clearAllHighlights
    \/ clearAllNext
    \/ clearAllHighlightsDone
    \/ destroy

Spec == Init /\ [][Next]_vars

-----------------------------------------------------------------------------
(* The storage adapters on their own: a MemoryStorageAdapter and a         *)
(* LocalStorageAdapter, each called by a client that awaits every call     *)
(* before it makes the next.  last is the call that settled last, with     *)
(* what the adapter stored before it.                                      *)

Adapters == {"memory", "local"}

\* anchors a client saves: two with the same id, one with another id, one
\* without createdAt, one whose text is a number, one whose startOffset is
\* NaN
Anchors ==
    {Stored("a", "abcd", ""),
     Stored("a", "efgh", "ab"),
     Stored("b", "ijkl", ""),
     [id |-> "c", text |-> "abcd", normalizedText |-> "abcd",
      startOffset |-> 0, endOffset |-> 4, prefix |-> "", suffix |-> "",
      color |-> "yellow", isCrossElement |-> FALSE],
     Merge(Stored("c", "42", ""), [text |-> "42",
                                   typeof |-> [text |-> "number"]]),
     Merge(Stored("c", "abcd", ""), [startOffset |-> 0,
                                     typeof |-> [startOffset |-> "NaN"]])}

\* the data a client passes to update: a new colour, a text that is a
\* number, another id
UpdateData ==
    {[color |-> "green"],
     [text |-> "42", typeof |-> [text |-> "number"]],
     [id |-> "b"]}

AnchorIds == {"a", "b"}

AdapterInit == Init /\ storage = <<>>

\* the client makes one call more than the callers of the Highlighter
CanAwait == issued < MaxCalls + 1

\* what the adapter stores
Store(adapter) == IF adapter = "memory" THEN memory ELSE storage

\* await adapter.load()
Load(adapter) ==
    IF adapter = "memory" THEN memory_load(memory) ELSE local_load(storage)

\* the call has settled: the stores and the record of the call
Settle(adapter, op, argument, settled) ==
    /\ issued' = issued + 1
    /\ memory' = IF adapter = "memory" THEN settled.store ELSE memory
    /\ storage' = IF adapter = "local" THEN settled.store ELSE storage
    /\ last' = [op |-> op, adapter |-> adapter, argument |-> argument,
                rejected |-> settled.rejected, error |-> settled.error,
                before |-> Store(adapter), loaded |-> Load(adapter)]
    /\ UNCHANGED <<container, highlights, isInitialized, tasks, notified,
                   errors, created, elements, hung, inits>>
    /\ UNCHANGED <<restoreVars, postVars, eventVars>>

\* await adapter.save(highlight)
Save(adapter, highlight) ==
    /\ CanAwait
    /\ Settle(adapter, "save", [highlight |-> highlight],
              IF adapter = "memory" THEN memory_save(memory, highlight)
              ELSE local_save(storage, highlight))

\* await adapter.update(id, data)
Update(adapter, id, data) ==
    /\ CanAwait
    /\ Settle(adapter, "update", [id |-> id, data |-> data],
              IF adapter = "memory" THEN memory_update(memory, id, data, now)
              ELSE local_update(storage, id, data, now))

\* await adapter.remove(id)
Remove(adapter, id) ==
    /\ CanAwait
    /\ Settle(adapter, "remove", [id |-> id],
              IF adapter = "memory" THEN memory_remove(memory, id)
              ELSE local_remove(storage, id))

\* await adapter.clear()
Clear(adapter) ==
    /\ CanAwait
    /\ Settle(adapter, "clear", <<>>,
              IF adapter = "memory" THEN memory_clear(memory)
              ELSE local_clear(storage))

AdapterNext ==
    \/ \E adapter \in Adapters, highlight \in Anchors :
           Save(adapter, highlight)
    \/ \E adapter \in Adapters, id \in AnchorIds, data \in UpdateData :
           Update(adapter, id, data)
    \/ \E adapter \in Adapters, id \in AnchorIds : Remove(adapter, id)
    \/ \E adapter \in Adapters : Clear(adapter)

SpecAdapters == AdapterInit /\ [][AdapterNext]_vars

-----------------------------------------------------------------------------
(* The PostMessageAdapter on its own; last is the step taken last.  A      *)
(* request is the promise that                                             *)
(* sendRequest returns: its state, the value it settled with, the number   *)
(* of calls made to its resolve and reject, its setTimeout callback        *)
(* ("armed" until it has run) and, beside the program's state, answer: the *)
(* first message that came in with its requestId while it was unsettled    *)
(* and its timer had not run.  Any window can post any message, so the     *)
(* messages that come in are inputs.                                       *)

MaxRequests == 2

\* generateId(): an id no other request has
generateId(n) == "r" \o ToString(n)

RequestTypes ==
    {"load_highlights", "save_highlight", "update_highlight",
     "remove_highlight", "clear_highlights"}

NoEnvelope == [none |-> TRUE]

\* event.data: the type and requestId ("" when the property is missing),
\* the data, and the error property when there is one; source is the
\* window that posted the message (event.source): the target window, the
\* adapter's own window or any other window
Envelopes ==
    {[type |-> "response", requestId |-> requestId, data |-> data,
      hasError |-> FALSE, error |-> "", source |-> "target"] :
        requestId \in {"", "r0"} \cup {generateId(n) : n \in 1..MaxRequests},
        data \in {"d1", "d2"}}
    \cup
    {[type |-> "", requestId |-> requestId, data |-> "d1",
      hasError |-> FALSE, error |-> "", source |-> "target"] :
        requestId \in {generateId(n) : n \in 1..MaxRequests}}
    \cup
    {[type |-> "response", requestId |-> requestId, data |-> "d1",
      hasError |-> TRUE, error |-> error, source |-> "target"] :
        requestId \in {generateId(n) : n \in 1..MaxRequests},
        error \in {"", "boom"}}
    \cup
    {[type |-> "response", requestId |-> requestId, data |-> "d2",
      hasError |-> FALSE, error |-> "", source |-> "other"] :
        requestId \in {generateId(n) : n \in 1..MaxRequests}}

\* the message that targetWindow.postMessage({type, requestId, data},
\* targetOrigin) delivers for a request
Posted(request) ==
    [type |-> request.type, requestId |-> request.requestId, data |-> "d1",
     hasError |-> FALSE, error |-> "", source |-> "self"]

PostInit == Init /\ storage = <<>>

\* the request with this id, 0 when there is none
RequestOf(requestId) ==
    IF \E k \in 1..Len(requests) : requests[k].requestId = requestId
    THEN CHOOSE k \in 1..Len(requests) : requests[k].requestId = requestId
    ELSE 0

\* resolve(value) or reject(error) of a promise: only the first call
\* settles it
settle(request, state, value) ==
    IF request.state = "pending"
    THEN [request EXCEPT !.state = state, !.value = value,
                         !.calls = @ + 1]
    ELSE [request EXCEPT !.calls = @ + 1]

\* the message is the first with the requestId of a request still waiting
Answered(all, message) ==
    [k \in 1..Len(all) |->
        IF /\ all[k].requestId = message.requestId
           /\ all[k].state = "pending"
           /\ all[k].timer = "armed"
           /\ all[k].answer = NoEnvelope
        THEN [all[k] EXCEPT !.answer = message]
        ELSE all[k]]

\* sendRequest(type, data): load, save, update, remove and clear each
\* await one
sendRequest(type) ==
    /\ Len(requests) < MaxRequests
    /\ pendingRequests' =
           pendingRequests \cup {generateId(Len(requests) + 1)}
    /\ requests' = Append(requests,
           [type |-> type, requestId |-> generateId(Len(requests) + 1),
            state |-> "pending", value |-> "", calls |-> 0,
            timer |-> "armed", answer |-> NoEnvelope])
    /\ last' = [op |-> "sendRequest"]
    /\ UNCHANGED <<memory, restoreVars, eventVars>>
    /\ UNCHANGED <<container, highlights, isInitialized, storage, tasks,
                   notified, errors, created, elements, issued, hung, inits>>

\* handleMessage(event); destroy() does not remove the listener, because
\* this.handleMessage.bind(this) is a new function at every call
handleMessage(message) ==
    /\ requests # <<>>
    /\ last' = [op |-> "handleMessage", message |-> message]
    /\ IF message.type = "" \/ message.requestId = ""
       THEN /\ requests' = Answered(requests, message)
            /\ UNCHANGED pendingRequests
       ELSE IF message.requestId \notin pendingRequests
       THEN /\ requests' = Answered(requests, message)
            /\ UNCHANGED pendingRequests
       ELSE /\ requests' =
                [Answered(requests, message)
                    EXCEPT ![RequestOf(message.requestId)] =
                        IF message.hasError /\ message.error # ""
                        THEN settle(@, "rejected", message.error)
                        ELSE settle(@, "resolved", message.data)]
            /\ pendingRequests' = pendingRequests \ {message.requestId}
    /\ UNCHANGED <<memory, restoreVars, eventVars>>
    /\ UNCHANGED <<container, highlights, isInitialized, storage, tasks,
                   notified, errors, created, elements, issued, hung, inits>>

\* this.targetWindow.postMessage(...) of the k-th request when the target
\* window is the adapter's own window (window.parent of a page that is not
\* framed): the listener of the adapter receives the request itself
postMessage(k) ==
    /\ k \in 1..Len(requests)
    /\ handleMessage(Posted(requests[k]))

\* the setTimeout callback of the k-th request, 10 seconds after the
\* request was sent: timers of equal delay run in the order they were set
timeout(k) ==
    /\ k \in 1..Len(requests)
    /\ requests[k].timer = "armed"
    /\ \A j \in 1..(k - 1) : requests[j].timer = "fired"
    /\ last' = [op |-> "timeout", request |-> k]
    /\ IF requests[k].requestId \in pendingRequests
       THEN /\ pendingRequests' = pendingRequests \ {requests[k].requestId}
            /\ requests' =
                [requests EXCEPT ![k] =
                    [settle(@, "rejected", "Request timeout: " \o @.type)
                        EXCEPT !.timer = "fired"]]
       ELSE /\ requests' = [requests EXCEPT ![k].timer = "fired"]
            /\ UNCHANGED pendingRequests
    /\ UNCHANGED <<memory, restoreVars, eventVars>>
    /\ UNCHANGED <<container, highlights, isInitialized, storage, tasks,
                   notified, errors, created, elements, issued, hung, inits>>

\* PostMessageAdapter.destroy()
post_destroy ==
    /\ requests # <<>>
    /\ last.op # "destroy"
    /\ pendingRequests' = {}
    /\ last' = [op |-> "destroy"]
    /\ UNCHANGED <<memory, requests, restoreVars, eventVars>>
    /\ UNCHANGED <<container, highlights, isInitialized, storage, tasks,
                   notified, errors, created, elements, issued, hung, inits>>

PostNext ==
    \/ \E type \in RequestTypes : sendRequest(type)
    \/ \E message \in Envelopes : handleMessage(message)
    \/ \E k \in 1..MaxRequests : postMessage(k)
    \/ \E k \in 1..MaxRequests : timeout(k)
    \/ post_destroy

SpecPostMessage == PostInit /\ [][PostNext]_vars

-----------------------------------------------------------------------------
(* The renderer on its own: renderHighlightMarks and unwrapHighlight       *)
(* called on the page, for every Range of the page as it then is.  last is *)
(* the call made last: for a rendering the Range, the text nodes of the    *)
(* Range, the marks returned and the DOM before; for an unwrapping the DOM *)
(* before the rendering it undoes, when the rendering of that id was the   *)
(* call before.  A surroundContents that throws is an input (failing).     *)

RenderInit == Init /\ storage = <<>>

\* the marks a rendering returns
MarksOf(rendered) == [k \in 1..Len(rendered.wraps) |-> rendered.wraps[k].mark]

\* the sets of segments whose surroundContents can throw
Failing(dom, range) ==
    IF range.sn = range.en THEN {{}}
    ELSE SUBSET (0..(Len(getTextNodesInRange(dom, range)) - 1))

\* renderHighlightMarks(range, id, options)
Render(range) ==
    /\ created < MaxCalls
    /\ last.op # "loadHighlights"
    /\ created' = created + 1
    /\ LET id == generateHighlightId(created + 1)
           textNodes == IF range.sn = range.en THEN <<>>
                        ELSE getTextNodesInRange(container, range)
           Rendered(rendered, failing) ==
             /\ container' = rendered.dom
             /\ last' = [op |-> "render", id |-> id, range |-> range,
                         failing |-> failing, textNodes |-> textNodes,
                         threw |-> rendered.threw,
                         marks |-> MarksOf(rendered), before |-> container]
       IN \E failing \in Failing(container, range) :
             Rendered(renderHighlightMarksWith(container, range, id,
                          defaultColor, elements, failing), failing)
    /\ elements' = elements + Max(1, Len(getTextNodesInRange(container,
                                                             range)))
    /\ UNCHANGED <<highlights, isInitialized, storage, tasks, notified,
                   errors, issued, hung, inits>>
    /\ UNCHANGED <<restoreVars, adapterVars, eventVars>>

\* unwrapHighlight(id, container)
Unwrap(id) ==
    /\ last.op = "render"
    /\ container' = unwrapHighlight(container, id)
    /\ last' = [op |-> "unwrap", id |-> id,
                undoes |-> last.id = id /\ ~last.threw,
                before |-> last.before]
    /\ UNCHANGED <<highlights, isInitialized, storage, tasks, notified,
                   errors, created, elements, issued, hung, inits>>
    /\ UNCHANGED <<restoreVars, adapterVars, eventVars>>

\* the batches of stored anchors given to loadHighlights: passages next to
\* each other, overlapping, across paragraphs, and one that is not on the page
BatchLists ==
    {<<Stored("s1", "abcd", ""), Stored("s2", "efgh", "")>>,
     <<Stored("s1", "abcd", ""), Stored("s2", "cd ef", "")>>,
     <<Stored("s1", "ghij", ""), Stored("s2", "ijkl", "")>>,
     <<Stored("s1", "wxyz", ""), Stored("s2", "efgh", "abcd")>>}

\* A loadHighlights that renders each anchor right after restoring it.
loadStepOneByOne(k, i, n) ==
    IF i < k THEN "render" ELSE IF k <= n THEN "restore" ELSE "done"

\* what loadHighlights does next when restoreHighlights is at the k-th of n
\* stored anchors and the loop over the results at the i-th one: the call
\* of restoreHighlights returns before the loop starts
loadStep(k, i, n) ==
    IF k <= n THEN "restore" ELSE IF i <= n THEN "render" ELSE "done"

\* loadHighlights(stored) is called on the page without marks
LoadHighlights ==
    /\ last.op = "none"
    /\ \E stored \in BatchLists :
          last' = [op |-> "loadHighlights", stored |-> stored,
                   before |-> container, k |-> 1, i |-> 1, results |-> <<>>]
    /\ UNCHANGED <<container, highlights, isInitialized, storage, tasks,
                   notified, errors, created, elements, issued, hung, inits>>
    /\ UNCHANGED <<restoreVars, adapterVars, eventVars>>

\* restoreHighlights: restoreHighlight(this.container, highlight) for the
\* next stored anchor
LoadRestore ==
    /\ last.op = "loadHighlights"
    /\ loadStep(last.k, last.i, Len(last.stored)) = "restore"
    /\ LET Set(highlight, restored) ==
             /\ restored.returns
             /\ last' = [last EXCEPT
                           !.k = @ + 1,
                           !.results = MapSet(@, highlight.id, restored)]
       IN Set(last.stored[last.k],
              restoreHighlight(container, last.stored[last.k]))
    /\ UNCHANGED <<container, highlights, isInitialized, storage, tasks,
                   notified, errors, created, elements, issued, hung, inits>>
    /\ UNCHANGED <<restoreVars, adapterVars, eventVars>>

\* loadHighlights: one turn of the loop over the results
LoadRender ==
    /\ last.op = "loadHighlights"
    /\ loadStep(last.k, last.i, Len(last.stored)) = "render"
    /\ LET id == last.results[last.i].id
           restored == last.results[last.i].value
           found == findIndex(last.stored, id)
           Skip ==
             /\ last' = [last EXCEPT !.i = @ + 1]
             /\ UNCHANGED <<container, highlights, elements, created>>
           Rendered(storedHighlight, rendered) ==
             IF rendered.threw THEN Skip
             ELSE /\ container' = rendered.dom
                  /\ highlights' =
                        MapSet(highlights, id,
                               createHighlightFromStored(storedHighlight))
                  /\ elements' = elements + Len(rendered.wraps)
                  /\ created' = created + 1
                  /\ last' = [last EXCEPT
                                !.i = @ + 1,
                                !.results = MoveAll(@, rendered.wraps)]
       IN IF ~restored.success \/ ~restored.range.ok \/ found = 0
          THEN Skip
          ELSE Rendered(last.stored[found],
                        renderHighlightMarks(container, restored.range, id,
                                             last.stored[found].color,
                                             elements))
    /\ UNCHANGED <<isInitialized, storage, tasks, notified, errors, issued,
                   hung, inits>>
    /\ UNCHANGED <<restoreVars, adapterVars, eventVars>>

RenderNext ==
    \/ LoadHighlights
    \/ LoadRestore
    \/ LoadRender
    \/ \E range \in RangesOf(container) : Render(range)
    \/ \E n \in 1..MaxCalls : Unwrap(generateHighlightId(n))

SpecRender == RenderInit /\ [][RenderNext]_vars

-----------------------------------------------------------------------------
(* The Highlighter on a page whose storage is empty when it is opened,     *)
(* with calls of createHighlight, removeHighlight, updateHighlight and     *)
(* clearAllHighlights only and a storage adapter whose writes succeed.     *)

EmptyStorageInit == Init /\ storage = <<>>

CallsNext ==
    \/ \E span \in Spans : createHighlight(Selection(container, span))
    \/ save(FALSE)
    \/ createHighlightDone
    \/ \E id \in Ids : removeHighlight(id)
    \/ remove(FALSE)
    \/ removeHighlightDone
    \/ \E id \in Ids, updates \in Updates : updateHighlight(id, updates)
    \/ update(FALSE)
    \/ updateHighlightDone
    \/ clearAllHighlights
    \/ clearAllNext
    \/ clearAllHighlightsDone

SpecEmptyStorage == EmptyStorageInit /\ [][CallsNext]_vars

-----------------------------------------------------------------------------
(* The Highlighter after init() has completed on a storage whose anchors   *)
(* it rendered, with calls of removeHighlight and clearAllHighlights only; *)
(* issued counts the calls made from then on.                              *)

InitializedInit ==
    /\ storage \in {stored \in StoredLists :
                       /\ loadHighlights(Page, <<>>, load(stored), 0).returns
                       /\ loadHighlights(Page, <<>>, load(stored), 0).highlights
                              # <<>>}
    /\ container = loadHighlights(Page, <<>>, load(storage), 0).dom
    /\ highlights = loadHighlights(Page, <<>>, load(storage), 0).highlights
    /\ elements = loadHighlights(Page, <<>>, load(storage), 0).elements
    /\ isInitialized = TRUE
    /\ listeners = setupEventListeners({}, 1)
    /\ boundHandlers = 1
    /\ tasks = <<>>
    /\ notified = <<>>
    /\ errors = 0
    /\ created = 0
    /\ issued = 0
    /\ inits = 0
    /\ memory = <<>>
    /\ args = [f |-> "none"]
    /\ returned = [f |-> "none"]
    /\ pendingRequests = {}
    /\ requests = <<>>
    /\ hung = FALSE
    /\ last = [op |-> "none"]
    /\ doc = <<>>
    /\ anchor = None
    /\ origin = NoRange
    /\ result = None
    /\ before = None
    /\ edit = "none"
    /\ batch = None
    /\ stage = "off"

RemovalsNext ==
    \/ \E id \in Ids : removeHighlight(id)
    \/ \E quotaExceeded \in BOOLEAN : remove(quotaExceeded)
    \/ removeHighlightDone
    \/ clearAllHighlights
    \/ clearAllNext
    \/ clearAllHighlightsDone

SpecRemovals == InitializedInit /\ [][RemovalsNext]_vars

-----------------------------------------------------------------------------
(* The functions of the text processor and createRangeFromCharacterOffsets *)
(* on their own: each action calls one of them on arguments drawn from the *)
(* strings over a small alphabet ("B" and "C" are the upper-case letters,  *)
(* "{" a typographic quote) and keeps the arguments and the result.        *)

\* longest text given to normalizeText and validateTextMatch
MaxText == 5

\* longest string given to computeSimilarity
MaxWord == 3

\* the strings of at most n characters of the alphabet
RECURSIVE StringsOver(_, _)
StringsOver(alphabet, n) ==
    IF n = 0 THEN {""}
    ELSE LET shorter == StringsOver(alphabet, n - 1)
         IN shorter \cup {t \o c : t \in {u \in shorter : Len(u) = n - 1},
                                  c \in alphabet}

Texts == StringsOver({"a", "B", " ", "\n", ".", ",", "{"}, MaxText)

Haystacks == StringsOver({"a", "b", " "}, MaxText)

Needles == {"", "a", "b", "ab", "A "}

Contexts == {"", "a", "b ", " ab"}

Words == StringsOver({"a", "b", "C", " "}, MaxWord)

\* the text nodes of the containers given to createRangeFromCharacterOffsets
Containers ==
    {DocOf(texts) : texts \in UNION {[1..n -> {"ab", "a,b", " ", " a  b"}] :
                                        n \in 1..MaxNodes}}

Offsets == -1..(MaxText + 1)

TextInit == Init /\ storage = <<>>

Called(f, arguments, outcome) ==
    /\ args' = [f |-> f, of |-> arguments]
    /\ returned' = outcome
    /\ UNCHANGED <<doc, anchor, origin, result, before, edit, batch, stage>>
    /\ UNCHANGED <<highlighterVars, adapterVars>>

\* normalizeText(text)
Normalize ==
    /\ args.f = "none"
    /\ \E text \in Texts :
           Called("normalizeText", [text |-> text], normalizeText(text))

\* validateTextMatch(text, searchText, prefix, suffix)
ValidateMatch ==
    /\ args.f = "none"
    /\ \E text \in Haystacks, searchText \in Needles,
          prefix \in Contexts, suffix \in Contexts :
           Called("validateTextMatch",
                  [text |-> text, searchText |-> searchText,
                   prefix |-> prefix, suffix |-> suffix],
                  validateTextMatch(text, searchText, prefix, suffix))

\* computeSimilarity(str1, str2)
ComputeSimilarity ==
    /\ args.f = "none"
    /\ \E str1 \in Words, str2 \in Words :
           Called("computeSimilarity", [str1 |-> str1, str2 |-> str2],
                  computeSimilarity(str1, str2))

\* createRangeFromCharacterOffsets(container, startOffset, endOffset)
CreateRange ==
    /\ args.f = "none"
    /\ \E dom \in Containers, startOffset \in Offsets, endOffset \in Offsets :
           Called("createRange",
                  [container |-> dom, startOffset |-> startOffset,
                   endOffset |-> endOffset],
                  createRangeFromCharacterOffsets(dom, startOffset, endOffset))

\* the charsBefore and charsAfter given to getTextContext
ContextLengths == {1, 3}

\* getTextContext(range, charsBefore, charsAfter) for a range of a container
GetTextContext ==
    /\ args.f = "none"
    /\ \E dom \in {DocOf(texts) : texts \in Documents},
          charsBefore \in ContextLengths,
          charsAfter \in ContextLengths :
           \E range \in RangesOf(dom) :
               Called("getTextContext",
                      [container |-> dom, range |-> range,
                       charsBefore |-> charsBefore, charsAfter |-> charsAfter],
                      getTextContext(dom, range, charsBefore, charsAfter))

\* getTextNodesInRange(range) for a range of a container
GetTextNodesInRange ==
    /\ args.f = "none"
    /\ \E dom \in Containers :
           \E range \in RangesOf(dom) :
               Called("getTextNodesInRange",
                      [container |-> dom, range |-> range],
                      getTextNodesInRange(dom, range))

TextNext ==
    \/ Normalize
    \/ GetTextNodesInRange
    \/ GetTextContext
    \/ ValidateMatch
    \/ ComputeSimilarity
    \/ CreateRange

SpecText == TextInit /\ [][TextNext]_vars

-----------------------------------------------------------------------------
(* Properties of the restorer                                              *)

Restored == stage \in {"restored", "rerestored"}

NormalizedDoc == normalizeText(textContent(doc))

\* shortest anchor for which the sliding-window step floor(len/4) is not 0
MinSteppedLen == 4

\* the offsets at which needle occurs in text
Occurrences(text, needle) ==
    {p \in 0..(Len(text) - Len(needle)) :
        Substring(text, p, p + Len(needle)) = needle}

\* the prefix/suffix check of validateTextMatch, made at the occurrence p
ContextValidAt(text, p, needle, prefix, suffix) ==
    LET np == Trim(normalizeTextWith(prefix, TRUE, FALSE))
        ns == Trim(normalizeTextWith(suffix, TRUE, FALSE))
        actualPrefix == Trim(Substring(text, Max(0, p - Len(np) - 5), p))
        actualSuffix == Trim(Substring(text, p + Len(needle),
                             Min(Len(text), p + Len(needle) + Len(ns) + 5)))
    IN /\ np # "" => EndsWith(actualPrefix, np)
       /\ ns # "" => StartsWith(actualSuffix, ns)

ValidOccurrences ==
    {p \in Occurrences(NormalizedDoc, anchor.normalizedText) :
        ContextValidAt(NormalizedDoc, p, anchor.normalizedText,
                       anchor.prefix, anchor.suffix)}

RangeAt(p) ==
    createRangeFromCharacterOffsets(doc, p, p + Len(anchor.normalizedText))

\* the window starts the fuzzy loop visits
ExaminedWindows ==
    LET len == Len(anchor.normalizedText)
        step == Max(1, len \div 4)
    IN {i \in 0..Len(NormalizedDoc) :
          i < Len(NormalizedDoc) - len /\ i % step = 0}

WindowSimilarity(i) ==
    computeSimilarity(anchor.normalizedText,
        Substring(NormalizedDoc, i, i + Len(anchor.normalizedText)))

QualifyingWindows ==
    {i \in ExaminedWindows :
        /\ SimGeq(WindowSimilarity(i), threshold)
        /\ createRangeFromCharacterOffsets(doc, i,
               i + Len(anchor.normalizedText)).ok}

\* C3: restoreHighlight returns a {success, ...} result for every container
\* and every anchor, anchors of normalized length 0..3 included: it never
\* loops forever.
C3_RestoreAlwaysReturns ==
    Restored => result.returns /\ result.success \in BOOLEAN

\* C4: when the anchor's text occurs more than once, an occurrence whose
\* context is rejected does not stop a later occurrence with matching context
\* from being returned, with confidence 1.0, and is not itself returned.
\* (Anchors shorter than MinSteppedLen are left to C3.)
C4_FirstValidOccurrenceReturned ==
    (/\ stage = "restored"
     /\ Len(anchor.normalizedText) >= MinSteppedLen
     /\ Cardinality(Occurrences(NormalizedDoc, anchor.normalizedText)) > 1
     /\ \E p \in ValidOccurrences : RangeAt(p).ok)
    => LET p == CHOOSE q \in ValidOccurrences :
                    RangeAt(q).ok
                    /\ \A o \in ValidOccurrences : RangeAt(o).ok => q <= o
       IN /\ result.returns
          /\ result.success
          /\ SimEq(result.confidence, One)
          /\ result.range = RangeAt(p)

PointLeq(an, ao, bn, bo) == ~PointBefore(bn, bo, an, ao)

\* C5: on the unchanged document, restoring the anchor createHighlight
\* persisted for a selection succeeds with confidence 1.0 on a range whose
\* normalized text is the anchor's and which lies on the selected occurrence.
\* (Anchors shorter than MinSteppedLen are left to C3.)
C5_RoundTrip ==
    (/\ stage = "restored"
     /\ origin.ok
     /\ Len(anchor.normalizedText) >= MinSteppedLen)
    => /\ result.returns
       /\ result.success
       /\ SimEq(result.confidence, One)
       /\ normalizeText(RangeText(doc, result.range)) = anchor.normalizedText
       /\ PointLeq(origin.sn, origin.so, result.range.sn, result.range.so)
       /\ PointLeq(result.range.en, result.range.eo, origin.en, origin.eo)

\* C6: a result with confidence 1.0 carries the range of an exact occurrence
\* of the anchor's text whose own prefix and suffix passed validation.
C6_FullConfidenceIsValidated ==
    (/\ Restored
     /\ result.returns
     /\ result.success
     /\ SimEq(result.confidence, One))
    => \E p \in ValidOccurrences : result.range = RangeAt(p)

\* C7: when the exact path yields no range, restoreHighlight succeeds exactly
\* when an examined window has similarity >= 0.8 and converts to a range, the
\* confidence is the highest such similarity, and otherwise it returns
\* success: false with an error and no range.
C7_FuzzyFallback ==
    (/\ Restored
     /\ ~findTextInDOM(doc, anchor, NormalizedDoc).ok)
    => /\ result.returns
       /\ result.success <=> QualifyingWindows # {}
       /\ result.success =>
            /\ \E i \in QualifyingWindows :
                  SimEq(result.confidence, WindowSimilarity(i))
            /\ \A i \in QualifyingWindows :
                  SimGeq(result.confidence, WindowSimilarity(i))
            /\ SimGeq(result.confidence, threshold)
       /\ ~result.success =>
            "error" \in DOMAIN result /\ "range" \notin DOMAIN result

\* every window of the anchor's length, whatever its offset
AllWindows ==
    0..Max(0, Len(NormalizedDoc) - Len(anchor.normalizedText))

\* C8: inserting unrelated text before or after an untouched highlighted
\* passage changes neither the success flag nor the confidence; after the
\* highlighted text is deleted and no window reaches 0.8 the result is
\* success: false.  (Anchors shorter than MinSteppedLen are left to C3.)
C8_EditsDegradeGracefully ==
    (/\ stage = "rerestored"
     /\ Len(anchor.normalizedText) >= MinSteppedLen)
    => /\ edit = "insert" =>
            /\ result.returns
            /\ result.success = before.success
            /\ result.success => SimEq(result.confidence, before.confidence)
       /\ (/\ edit = "delete"
           /\ \A i \in AllWindows : ~SimGeq(WindowSimilarity(i), threshold))
          => result.returns /\ ~result.success

\* C9: restoreHighlights returns one result per anchor id of the batch, each
\* the result of restoreHighlight for that anchor alone; no anchor keeps the
\* others from being processed.
C9_BatchIsPerAnchor ==
    stage = "batched"
    => /\ batch.output.returns
       /\ \A k \in 1..Len(batch.input) :
            /\ MapHas(batch.output.results, batch.input[k].id)
            /\ MapGet(batch.output.results, batch.input[k].id)
                 = restoreHighlight(doc, batch.input[k])

-----------------------------------------------------------------------------
(* Properties of the Highlighter                                           *)

StorageTasks == {"save", "update", "remove"}

\* C1: the in-memory index is never ahead of persistence: it holds no id
\* whose storage.save is still pending, and an update or a removal has not
\* been applied to it while the matching storage call is still pending.
C1_IndexNeverAheadOfPersistence ==
    \A k \in 1..Len(tasks) :
        /\ tasks[k].t = "save" => ~MapHas(highlights, tasks[k].call.id)
        /\ (tasks[k].t \in {"update", "remove"} /\ tasks[k].call.alone)
           => highlights = tasks[k].call.before

\* C2: when storage.save, storage.remove or storage.update rejects, the
\* failure is logged and the index after the call is the index before it.
C2_RejectionLeavesIndexUnchanged ==
    (/\ last.op \in {"create", "remove", "update"}
     /\ last.rejected
     /\ last.alone)
    => errors > 0 /\ last.unchanged

\* C10: loading puts into the index only anchors that were restored and
\* rendered, makes no save, update or remove call and leaves the stored
\* list as it was.
C10_LoadKeepsFailedAnchorsStored ==
    [][initLoadHighlights =>
         /\ storage' = storage
         /\ \A k \in 1..Len(tasks') :
               tasks'[k].t \in StorageTasks
               => \E j \in 1..Len(tasks) : tasks[j] = tasks'[k]
         /\ \A k \in 1..Len(highlights') :
               (~MapHas(highlights, highlights'[k].id)
                \/ MapGet(highlights, highlights'[k].id) # highlights'[k].value)
               => /\ \E j \in 1..Len(Head(tasks).stored) :
                        /\ Head(tasks).stored[j].id = highlights'[k].id
                        /\ restoreHighlight(container,
                                            Head(tasks).stored[j]).success
                  /\ getHighlightElements(container', highlights'[k].id,
                                          1, 1, <<>>) # <<>>
      ]_vars

\* C10: a load has restored one stored anchor and failed on another, which
\* is not in the index and is still stored.
C10_LoadedWithFailedAnchor ==
    /\ last.op = "load"
    /\ last.failed # {}
    /\ highlights # <<>>
    /\ \A id \in last.failed :
          /\ ~MapHas(highlights, id)
          /\ \E k \in 1..Len(storage) : storage[k].id = id

\* C11: removeHighlight(id) for an id that is not in the index changes
\* nothing: no storage.remove call is queued, onRemove is not notified, no
\* marker is unwrapped, nothing is logged and the index is unchanged.
C11_RemoveUntrackedIsNoOp ==
    [][\A id \in Ids :
          (~MapHas(highlights, id) /\ removeHighlight(id))
          => /\ container' = container
             /\ highlights' = highlights
             /\ storage' = storage
             /\ tasks' = tasks
             /\ notified' = notified
             /\ errors' = errors
      ]_vars

\* C11: removeHighlight has returned for an id that is not tracked while
\* other highlights are tracked and rendered.
C11_RemovedUntracked ==
    /\ last.op = "remove"
    /\ "tracked" \in DOMAIN last
    /\ ~last.tracked
    /\ ~MapHas(highlights, last.id)
    /\ highlights # <<>>
    /\ notified = <<>>

\* the notifications made after the first seen ones
NotifiedSince(all, seen) == SubSeq(all, seen + 1, Len(all))

\* the number of notifications equal to n
Count(all, n) == Cardinality({k \in 1..Len(all) : all[k] = n})

C13_ClearAllRemovesThenClears ==
    /\ [](\A k \in 1..Len(tasks) :
            (tasks[k].t = "cleared" /\ tasks[k].call.alone)
            => NotifiedSince(notified, tasks[k].call.seen)
               = [j \in 1..Len(tasks[k].call.ids) |->
                     <<"onRemove", tasks[k].call.ids[j]>>])
    /\ [][(clearAllHighlightsDone /\ Head(tasks).call.alone)
          => /\ highlights' = <<>>
             /\ load(storage') = <<>>
             /\ \A j \in 1..Len(Head(tasks).call.ids) :
                   getHighlightElements(container', Head(tasks).call.ids[j],
                                        1, 1, <<>>) = <<>>
             /\ NotifiedSince(notified', Head(tasks).call.seen)
                = [j \in 1..Len(Head(tasks).call.ids) |->
                      <<"onRemove", Head(tasks).call.ids[j]>>]
        ]_vars

\* C13: a clearAllHighlights that no other call overlapped has resolved
\* after removing two highlights.
C13_ClearedTwo ==
    /\ last.op = "clearAll"
    /\ last.alone
    /\ Len(last.ids) >= 2
    /\ Len(NotifiedSince(notified, last.seen)) >= 2

\* C14: updateHighlight(id, updates) for a tracked id replaces the entry of
\* the index by the previous anchor merged with updates and a fresh
\* updatedAt, then calls storage.update for the id, which notifies nothing,
\* and after it has settled notifies onUpdate once, with the merged anchor;
\* for an id that is not tracked it throws and changes neither the index
\* nor the storage calls nor the notifications.
C14_UpdateMergesPersistsNotifies ==
    /\ [][\A id \in Ids, updates \in Updates :
            (MapHas(highlights, id) /\ updateHighlight(id, updates))
            => /\ highlights' =
                    MapSet(highlights, id,
                           [f \in DOMAIN MapGet(highlights, id)
                                   \cup DOMAIN updates \cup {"updatedAt"} |->
                               IF f = "updatedAt" THEN issued + inits
                               ELSE IF f \in DOMAIN updates THEN updates[f]
                               ELSE MapGet(highlights, id)[f]])
               /\ storage' = storage
               /\ notified' = notified
               /\ tasks'[Len(tasks')].t = "update"
               /\ tasks'[Len(tasks')].id = id
        ]_vars
    /\ [][\A id \in Ids, updates \in Updates :
            (~MapHas(highlights, id) /\ updateHighlight(id, updates))
            => /\ last'.threw
               /\ highlights' = highlights
               /\ storage' = storage
               /\ tasks' = tasks
               /\ notified' = notified
        ]_vars
    /\ [][\A quotaExceeded \in BOOLEAN :
            update(quotaExceeded) => notified' = notified
        ]_vars
    /\ [][updateHighlightDone
          => notified' = Append(notified,
                                <<"onUpdate", Head(tasks).call.id,
                                  Head(tasks).call.value>>)
        ]_vars

\* C14: an updateHighlight of a tracked id has resolved, its storage.update
\* fulfilled: the index and the storage hold the new colour and an
\* updatedAt, and onUpdate was notified with the merged anchor.
C14_Updated ==
    /\ last.op = "update"
    /\ "threw" \notin DOMAIN last
    /\ ~last.rejected
    /\ MapHas(highlights, last.id)
    /\ MapGet(highlights, last.id).color = "green"
    /\ "updatedAt" \in DOMAIN MapGet(highlights, last.id)
    /\ notified = <<<<"onUpdate", last.id, MapGet(highlights, last.id)>>>>
    /\ \E k \in 1..Len(storage) :
          /\ storage[k].id = last.id
          /\ storage[k].color = "green"
          /\ typeof(storage[k], "updatedAt") = "string"

\* C15: after two createHighlight calls for different selections have both
\* resolved, neither save having rejected, both ids are in the index and both anchors are in the
\* list storage.load() returns.
C15_BothCreatesTakeEffect ==
    (/\ tasks = <<>>
     /\ errors = 0
     /\ notified = <<<<"onHighlight", generateHighlightId(1)>>,
                     <<"onHighlight", generateHighlightId(2)>>>>
     /\ ~(/\ MapHas(highlights, generateHighlightId(1))
          /\ MapHas(highlights, generateHighlightId(2))
          /\ MapGet(highlights, generateHighlightId(1)).text
             = MapGet(highlights, generateHighlightId(2)).text))
    => \A n \in 1..2 :
          /\ MapHas(highlights, generateHighlightId(n))
          /\ \E k \in 1..Len(load(storage)) :
                load(storage)[k].id = generateHighlightId(n)

-----------------------------------------------------------------------------
(* Properties of the storage adapters                                      *)

\* the ids of the anchors of a list
IdsOf(list) == {list[k].id : k \in 1..Len(list)}

\* C16: after save(a) has resolved load() contains an anchor equal to a,
\* after remove(id) has resolved load() contains no anchor with that id,
\* after clear() has resolved load() returns an empty list.
C16_AdapterConformance ==
    "adapter" \in DOMAIN last
    => /\ (last.op = "save" /\ ~last.rejected)
          => \E k \in 1..Len(Load(last.adapter)) :
                Load(last.adapter)[k] = last.argument.highlight
       /\ (last.op = "remove" /\ ~last.rejected)
          => last.argument.id \notin IdsOf(Load(last.adapter))
       /\ (last.op = "clear" /\ ~last.rejected)
          => Load(last.adapter) = <<>>

\* a required field with a value of the wrong type among the fields given
WrongType(data) ==
    \E f \in DOMAIN data \cap DOMAIN RequiredFields :
        typeof(data, f) # RequiredFields[f]

\* C17: save(anchor) of an anchor that is not valid, and update(id, data)
\* of a stored id with a field of the wrong type, reject with a validation
\* error and leave what is stored as it was.
C17_MalformedIsRejected ==
    "adapter" \in DOMAIN last
    => /\ (last.op = "save" /\ ~validateHighlight(last.argument.highlight))
          => /\ last.rejected
             /\ last.error = "Invalid highlight data"
             /\ Store(last.adapter) = last.before
       /\ (/\ last.op = "update"
           /\ last.argument.id \in IdsOf(last.loaded)
           /\ WrongType(last.argument.data))
          => /\ last.rejected
             /\ last.error = "Invalid highlight data"
             /\ Store(last.adapter) = last.before

\* C18: update(id, data) and remove(id) for an id that load() does not
\* return reject with a not-found error and leave what is stored as it was.
C18_UnknownIdIsRejected ==
    (/\ "adapter" \in DOMAIN last
     /\ last.op \in {"update", "remove"}
     /\ last.argument.id \notin IdsOf(last.loaded))
    => /\ last.rejected
       /\ last.error = "not found"
       /\ Store(last.adapter) = last.before

\* C18: remove(id) or update(id, data) has settled for an id that was not
\* stored while another anchor was.
C18_UnknownIdCalled ==
    /\ "adapter" \in DOMAIN last
    /\ last.op \in {"update", "remove"}
    /\ last.loaded # <<>>
    /\ last.argument.id \notin IdsOf(last.loaded)
    /\ last.rejected

\* C19: load() never returns two anchors with the same id.
C19_StoredIdsAreUnique ==
    \A adapter \in Adapters :
        \A j, k \in 1..Len(Load(adapter)) :
            Load(adapter)[j].id = Load(adapter)[k].id => j = k

\* C20: every anchor in the in-memory index, and every anchor that
\* createHighlight has passed to storage.save, has a non-empty
\* normalizedText.
C20_NormalizedTextIsNeverEmpty ==
    /\ \A k \in 1..Len(highlights) :
          highlights[k].value.normalizedText # ""
    /\ \A k \in 1..Len(tasks) :
          tasks[k].t = "save" => tasks[k].highlight.normalizedText # ""

-----------------------------------------------------------------------------
(* Properties of the PostMessageAdapter                                    *)

\* C21: every request is settled at most once and as its first answer says:
\* resolved with the data of the first message that carried its requestId
\* when that message has no error field, rejected with the error when it
\* has one, rejected with a timeout error when its timer has run without
\* an answer, and pending only until then; no later message changes the
\* outcome, and a settled request has no entry in the pending table.
C21_RequestSettledOnceByFirstAnswer ==
    \A k \in 1..Len(requests) :
        /\ requests[k].calls <= 1
        /\ requests[k].state # "pending"
           => requests[k].requestId \notin pendingRequests
        /\ (requests[k].answer # NoEnvelope /\ requests[k].answer.hasError)
           => /\ requests[k].state = "rejected"
              /\ requests[k].value = requests[k].answer.error
        /\ (requests[k].answer # NoEnvelope /\ ~requests[k].answer.hasError)
           => /\ requests[k].state = "resolved"
              /\ requests[k].value = requests[k].answer.data
        /\ (requests[k].answer = NoEnvelope /\ requests[k].timer = "fired")
           => /\ requests[k].state = "rejected"
              /\ requests[k].value
                 = "Request timeout: " \o requests[k].type
        /\ (requests[k].answer = NoEnvelope /\ requests[k].timer = "armed")
           => requests[k].state = "pending"

\* C22: once the timeout of a request has passed the request is settled
\* and has no entry in the pending table, also when destroy() was called
\* while it was pending.
C22_SettledNoLaterThanTimeout ==
    \A k \in 1..Len(requests) :
        requests[k].timer = "fired"
        => /\ requests[k].state # "pending"
           /\ requests[k].requestId \notin pendingRequests

-----------------------------------------------------------------------------
(* Properties of the renderer                                              *)

\* the mark elements tagged with the id that are in the DOM
TaggedWith(dom, id) == getHighlightElements(dom, id, 1, 1, <<>>)

\* C23: unwrapHighlight(id) right after renderHighlightMarks has rendered
\* that id restores the container: no mark tagged with the id remains, the
\* text content is what it was before the rendering, there are no more
\* text nodes than before, and a page that had no mark is exactly what it
\* was.
C23_UnwrapRestoresContainer ==
    (last.op = "unwrap" /\ last.undoes)
    => /\ TaggedWith(container, last.id) = <<>>
       /\ textContent(container) = textContent(last.before)
       /\ Len(container) <= Len(last.before)
       /\ last.before = Page => container = Page

\* C23: a highlight rendered over the two paragraphs of the unmarked page
\* has been unwrapped.
C23_UnwrappedAcrossParagraphs ==
    /\ last.op = "unwrap"
    /\ last.undoes
    /\ last.before = Page
    /\ created = 1
    /\ elements = 2

\* the range selects text that is not blank in two paragraphs
AcrossParagraphs(dom, range) ==
    /\ dom[range.sn].par # dom[range.en].par
    /\ ~IsBlank(Substring(dom[range.sn].text, range.so,
                          Len(dom[range.sn].text)))
    /\ ~IsBlank(Substring(dom[range.en].text, 0, range.eo))

\* the index in the DOM of the text node under the mark element
NodeUnder(dom, mark) == CHOOSE k \in NodesUnder(dom, mark.el) : TRUE

C25_ThrowsWhenNothingRendered ==
    (last.op = "render" /\ last.range.sn # last.range.en)
    => /\ ~last.threw
          => /\ Len(last.marks)
                = Cardinality((0..(Len(last.textNodes) - 1)) \ last.failing)
             /\ \A k \in 1..Len(last.marks) :
                   last.marks[k].part \notin last.failing
       /\ last.threw <=> (\A index \in 0..(Len(last.textNodes) - 1) :
                            index \in last.failing)

-----------------------------------------------------------------------------
(* Properties of Highlighter.destroy                                       *)

\* C26: when destroy() returns no event listener registered by init() is
\* left, the in-memory index is empty and no mark is in the container.
C26_DestroyCleansUp ==
    [][destroy => /\ listeners' = {}
                  /\ highlights' = <<>>
                  /\ \A k \in 1..Len(container') : container'[k].marks = <<>>]_vars

-----------------------------------------------------------------------------
(* Properties of the text processor                                        *)

\* C27: normalizeText with the default options is idempotent: normalizing
\* the text it returned returns that text again.
C27_NormalizeTextIsIdempotent ==
    args.f = "normalizeText" => normalizeText(returned) = returned

\* C27 witness: a text with punctuation, a quote or a run of white space
\* was normalized to a shorter, non-empty text.
C27_NormalizedToShorterText ==
    /\ args.f = "normalizeText"
    /\ returned # ""
    /\ Len(returned) < Len(args.of.text)
    /\ \E k \in 0..(Len(returned) - 1) : CharAt(returned, k) \in {".", ",", "\""}

\* what C28 states of validateTextMatch, on the normalized strings
ContextMatches(text, needle, prefix, suffix) ==
    LET occurrences == Occurrences(text, needle)
        first == CHOOSE k \in occurrences : \A j \in occurrences : k <= j
        after == first + Len(needle)
        textBefore ==
            Trim(Substring(text, Max(0, first - Len(prefix) - 5), first))
        textAfter ==
            Trim(Substring(text, after,
                           Min(Len(text), after + Len(suffix) + 5)))
    IN /\ occurrences # {}
       /\ \/ prefix = ""
          \/ \E k \in 0..Len(textBefore) :
                 /\ k + Len(prefix) = Len(textBefore)
                 /\ Substring(textBefore, k, Len(textBefore)) = prefix
       /\ \/ suffix = ""
          \/ /\ Len(suffix) <= Len(textAfter)
             /\ Substring(textAfter, 0, Len(suffix)) = suffix

\* C28: validateTextMatch returns false when the normalized needle does not
\* occur in the normalized text, and otherwise true exactly when the
\* normalized prefix is empty or ends the trimmed text of at most
\* len(prefix) + 5 characters before the first occurrence, and the
\* normalized suffix is empty or starts the trimmed text of at most
\* len(suffix) + 5 characters after it.
C28_ValidatesContextOfFirstOccurrence ==
    args.f = "validateTextMatch" =>
        returned = ContextMatches(normalizeText(args.of.text),
                                  normalizeText(args.of.searchText),
                                  normalizeText(args.of.prefix),
                                  normalizeText(args.of.suffix))

\* C28 witness: a match that is not at the start of the text was validated
\* against a prefix and a suffix that are not empty.
C28_ValidatedWithContext ==
    /\ args.f = "validateTextMatch"
    /\ returned = TRUE
    /\ normalizeText(args.of.prefix) # ""
    /\ normalizeText(args.of.suffix) # ""
    /\ 0 \notin Occurrences(normalizeText(args.of.text),
                            normalizeText(args.of.searchText))

\* the least number of insertions, deletions and substitutions of one
\* character that turn a into b
RECURSIVE EditDistance(_, _)
EditDistance(a, b) ==
    IF a = "" THEN Len(b)
    ELSE IF b = "" THEN Len(a)
    ELSE Min(Min(EditDistance(Tail(a), b) + 1, EditDistance(a, Tail(b)) + 1),
             EditDistance(Tail(a), Tail(b))
                 + (IF Head(a) = Head(b) THEN 0 ELSE 1))

\* the characters of s
CharsOf(s) == {CharAt(s, k) : k \in 0..(Len(s) - 1)}

\* what C29 states of the value of computeSimilarity on the normalized
\* strings a and b, apart from the strings for which it is 0
SimilarityIsScaledDistance(a, b, similarity) ==
    LET maxLen == Max(Len(a), Len(b))
    IN /\ similarity.den > 0
       /\ 0 <= similarity.num
       /\ similarity.num <= similarity.den
       /\ a = b => SimEq(similarity, One)
       /\ a # b => SimEq(similarity, [num |-> maxLen - EditDistance(a, b),
                                      den |-> maxLen])
       /\ SimEq(similarity, One) => a = b

\* C29 (as amended): computeSimilarity is 1 for strings with equal
\* normalizations and otherwise 1 - d / max(len) for the edit distance d of
\* the normalized strings; it lies in [0, 1], is 1 only for equal
\* normalizations, and is 0 for non-empty normalized strings of equal
\* length that have no character in common.
C29_SimilarityOfDisjointStringsIsZero ==
    args.f = "computeSimilarity" =>
        LET a == normalizeText(args.of.str1)
            b == normalizeText(args.of.str2)
        IN /\ SimilarityIsScaledDistance(a, b, returned)
           /\ (a # "" /\ Len(a) = Len(b) /\ CharsOf(a) \cap CharsOf(b) = {})
                  => returned.num = 0

\* C29 witness: two strings of three characters with no character in common
\* were compared.
C29_ComparedDisjointStrings ==
    /\ args.f = "computeSimilarity"
    /\ Len(normalizeText(args.of.str1)) = MaxWord
    /\ Len(normalizeText(args.of.str2)) = MaxWord
    /\ CharsOf(normalizeText(args.of.str1))
           \cap CharsOf(normalizeText(args.of.str2)) = {}

\* C29 (as stated): as above, with 0 for every two non-empty normalized
\* strings of equal length that differ at every position.
C29_SimilarityOfStringsDifferingEverywhereIsZero ==
    args.f = "computeSimilarity" =>
        LET a == normalizeText(args.of.str1)
            b == normalizeText(args.of.str2)
        IN /\ SimilarityIsScaledDistance(a, b, returned)
           /\ (/\ a # ""
               /\ Len(a) = Len(b)
               /\ \A k \in 0..(Len(a) - 1) : CharAt(a, k) # CharAt(b, k))
                  => returned.num = 0

-----------------------------------------------------------------------------
(* Properties of createRangeFromCharacterOffsets                           *)

\* the normalized length of the text nodes before node k
RECURSIVE NormalizedLengthBefore(_, _)
NormalizedLengthBefore(dom, k) ==
    IF k <= 1 THEN 0
    ELSE NormalizedLengthBefore(dom, k - 1)
             + Len(normalizeText(dom[k - 1].text))

\* C30: for offsets 0 <= start < end <= total normalized length the range
\* starts in the node whose interval [c, c + len) of normalized offsets
\* contains start, at start - c, and ends in the node with
\* c < end <= c + len, at end - c, the end node never before the start
\* node; when a boundary lies in no node the result is null.
C30_RangeBoundariesFromCumulativeOffsets ==
    args.f = "createRange" =>
        LET dom == args.of.container
            startOffset == args.of.startOffset
            endOffset == args.of.endOffset
            total == NormalizedLengthBefore(dom, Len(dom) + 1)
            c(k) == NormalizedLengthBefore(dom, k)
            len(k) == Len(normalizeText(dom[k].text))
        IN /\ (0 <= startOffset /\ startOffset < endOffset
                  /\ endOffset <= total)
               => /\ returned.ok
                  /\ c(returned.sn) <= startOffset
                  /\ startOffset < c(returned.sn) + len(returned.sn)
                  /\ returned.so = startOffset - c(returned.sn)
                  /\ c(returned.en) < endOffset
                  /\ endOffset <= c(returned.en) + len(returned.en)
                  /\ returned.eo = endOffset - c(returned.en)
                  /\ returned.sn <= returned.en
           /\ (startOffset < 0 \/ startOffset >= total
                  \/ endOffset <= 0 \/ endOffset > total)
               => returned = NoRange

-----------------------------------------------------------------------------
(* Properties of getTextContext                                            *)

\* the text nodes under the common ancestor of the range
UnderCommonAncestor(dom, range) ==
    IF range.sn = range.en THEN {range.sn}
    ELSE LET p == PathOf(dom[range.sn])
             q == PathOf(dom[range.en])
         IN {i \in 1..Len(dom) :
                \E k \in 0..Min(Len(p), Len(q)) :
                    /\ SubSeq(p, 1, k) = SubSeq(q, 1, k)
                    /\ k = Len(p) \/ k = Len(q) \/ p[k + 1] # q[k + 1]
                    /\ Len(PathOf(dom[i])) >= k
                    /\ SubSeq(PathOf(dom[i]), 1, k) = SubSeq(p, 1, k)}

\* the text of the nodes of the set from node lo to node hi
RECURSIVE TextOf(_, _, _, _)
TextOf(dom, nodes, lo, hi) ==
    IF lo > hi THEN ""
    ELSE (IF lo \in nodes THEN dom[lo].text ELSE "")
         \o TextOf(dom, nodes, lo + 1, hi)

\* C31: the prefix is the at most charsBefore characters of the common
\* ancestor's text right before the start of the range and the suffix the
\* at most charsAfter characters right after its end, for ranges inside
\* one text node and for ranges across text nodes.
C31_ContextAdjoinsTheRange ==
    args.f = "getTextContext" =>
        LET dom == args.of.container
            range == args.of.range
            nodes == UnderCommonAncestor(dom, range)
            textBefore == TextOf(dom, nodes, 1, range.sn - 1)
                              \o Substring(dom[range.sn].text, 0, range.so)
            textAfter == Substring(dom[range.en].text, range.eo,
                                   Len(dom[range.en].text))
                             \o TextOf(dom, nodes, range.en + 1, Len(dom))
        IN /\ returned.prefix =
                  Substring(textBefore,
                            Max(0, Len(textBefore) - args.of.charsBefore),
                            Len(textBefore))
           /\ returned.suffix =
                  Substring(textAfter, 0,
                            Min(Len(textAfter), args.of.charsAfter))

-----------------------------------------------------------------------------
(* Properties of Highlighter.loadHighlights                                *)

\* the ids of the stored anchors of which a marker is in the DOM
Marked(dom, stored) ==
    {stored[k].id : k \in {j \in 1..Len(stored) :
                              TaggedWith(dom, stored[j].id) # <<>>}}

\* C32: while loadHighlights still has a stored anchor of the batch to
\* restore, no marker of the batch is in the DOM and the container is as it
\* was when the call began; when the call is over the container and the
\* index are those of restoring the whole batch first and rendering after.
C32_BatchRestoredBeforeFirstMarker ==
    last.op = "loadHighlights" =>
        LET n == Len(last.stored)
            loaded == loadHighlights(last.before, <<>>, last.stored, 0)
        IN /\ last.k <= n => /\ Marked(container, last.stored) = {}
                             /\ container = last.before
           /\ Marked(container, last.stored) # {} => Len(last.results) = n
           /\ loadStep(last.k, last.i, n) = "done"
                  => /\ container = loaded.dom
                     /\ highlights = loaded.highlights

\* C32 witness: both anchors of a batch were restored and the marker of the
\* first one is in the DOM while the second one is still to be rendered.
C32_FirstMarkerAfterLastScan ==
    /\ last.op = "loadHighlights"
    /\ last.k = 3
    /\ last.i = 2
    /\ Marked(container, last.stored) = {"s1"}
    /\ last.results[2].value.success

-----------------------------------------------------------------------------
(* Properties of the fuzzy fallback                                        *)

\* the window starts 0, step, 2 * step, ... with i + len <= length of the
\* normalized container text
WindowsWithinText ==
    LET len == Len(anchor.normalizedText)
        step == Max(1, len \div 4)
    IN {i \in 0..Len(NormalizedDoc) :
          i + len <= Len(NormalizedDoc) /\ i % step = 0}

\* C33: the fuzzy fallback examines every window start 0, step, 2 * step,
\* ... with i + len <= length of the normalized container text, the window
\* that ends at the end of the text included: when the exact path yields no
\* range and such a window has similarity >= 0.8 and converts to a range,
\* restoreHighlight succeeds with at least that confidence.  (Anchors
\* shorter than MinSteppedLen are left to C3.)
C33_EveryWindowWithinTextIsExamined ==
    (/\ Restored
     /\ Len(anchor.normalizedText) >= MinSteppedLen
     /\ ~findTextInDOM(doc, anchor, NormalizedDoc).ok)
    => \A i \in WindowsWithinText :
          (/\ SimGeq(WindowSimilarity(i), threshold)
           /\ RangeAt(i).ok)
          => /\ result.returns
             /\ result.success
             /\ SimGeq(result.confidence, WindowSimilarity(i))

-----------------------------------------------------------------------------
(* Properties of getTextNodesInRange                                       *)

\* the text nodes that are not blank and share at least one character
\* position with the range, positions counted in the container's text
NonBlankInRange(dom, range) ==
    LET from == Len(ConcatText(dom, 1, range.sn - 1)) + range.so
        to == Len(ConcatText(dom, 1, range.en - 1)) + range.eo
    IN {k \in 1..Len(dom) :
          /\ Trim(dom[k].text) # ""
          /\ from < Len(ConcatText(dom, 1, k))
          /\ Len(ConcatText(dom, 1, k - 1)) < to}

\* the entries list the nodes of the set in document order, with the
\* range's own offsets in its start and end container
ListsNodes(dom, range, entries, nodes) ==
    /\ {entries[j].node : j \in 1..Len(entries)} = nodes
    /\ \A i, j \in 1..Len(entries) : i < j => entries[i].node < entries[j].node
    /\ \A j \in 1..Len(entries) :
          LET e == entries[j]
          IN /\ e.isFirst <=> e.node = range.sn
             /\ e.isLast <=> e.node = range.en
             /\ e.startOffset = (IF e.node = range.sn THEN range.so ELSE 0)
             /\ e.endOffset = (IF e.node = range.en THEN range.eo
                               ELSE Len(dom[e.node].text))

\* C34 (as amended): getTextNodesInRange lists, in document order and with
\* the range's own offsets in its start and end container, the text nodes
\* that are not blank and intersect the range; when there is none, it lists
\* the start container alone for a range inside one text node, and for a
\* range across nodes the text nodes that are not blank from the start
\* container to the end container.
C34_NodesInRangeOrFallback ==
    args.f = "getTextNodesInRange" =>
        LET dom == args.of.container
            range == args.of.range
            nodes == NonBlankInRange(dom, range)
        IN ListsNodes(dom, range, returned,
               IF nodes # {} THEN nodes
               ELSE IF range.sn = range.en THEN {range.sn}
               ELSE {k \in range.sn..range.en : Trim(dom[k].text) # ""})

\* C34 witness: a range from inside one text node to inside the next one
\* was listed with its two nodes.
C34_ListedAcrossNodes ==
    /\ args.f = "getTextNodesInRange"
    /\ args.of.range.sn = 1
    /\ args.of.range.so > 0
    /\ args.of.range.en = 2
    /\ args.of.range.eo < Len(args.of.container[2].text)
    /\ Len(returned) = 2

\* C34 (as stated): getTextNodesInRange lists exactly the text nodes that
\* are not blank and intersect the range, in document order and with the
\* range's own offsets in its start and end container.
C34_ExactlyNonBlankNodesInRange ==
    args.f = "getTextNodesInRange" =>
        ListsNodes(args.of.container, args.of.range, returned,
                   NonBlankInRange(args.of.container, args.of.range))

-----------------------------------------------------------------------------
(* Properties of Highlighter.init                                          *)

\* a text node is under two marks tagged with the same highlight id
RenderedTwice(dom) ==
    \E k \in 1..Len(dom) :
        \E c, d \in 1..Len(dom[k].marks) :
            c # d /\ dom[k].marks[c].id = dom[k].marks[d].id

\* C35: however many times init() is called, also while an earlier call is
\* awaiting storage.load(), the event listeners are registered at most once
\* and no stored highlight is rendered twice.
C35_InitTakesEffectOnce ==
    /\ Cardinality(listeners) <= 1
    /\ ~RenderedTwice(container)

-----------------------------------------------------------------------------
(* Properties of the index of the Highlighter                              *)

\* C36: every anchor of the index has the id that is the key it is stored
\* under, whatever createHighlight, loadHighlights, updateHighlight (also
\* with updates that hold an id) and removeHighlight calls were made.
C36_IndexKeyIsAnchorId ==
    \A k \in 1..Len(highlights) : highlights[k].value.id = highlights[k].id

-----------------------------------------------------------------------------
(* Properties of removeHighlight and unwrapHighlight                       *)

\* the mark elements in the DOM, each with the highlight id it is tagged with
MarksIn(dom) ==
    UNION {{<<dom[k].marks[d].el, dom[k].marks[d].id>> :
               d \in 1..Len(dom[k].marks)} : k \in 1..Len(dom)}

\* C37: removeHighlight(id) removes only the markers tagged with id: every
\* marker of another highlight that was in the DOM, also one inside a
\* marker of the removed highlight, is still there with its id.
C37_RemoveLeavesOtherMarkers ==
    [][\A id \in Ids :
          removeHighlight(id)
          => \A mark \in MarksIn(container) :
                mark[2] # id => mark \in MarksIn(container')
      ]_vars

-----------------------------------------------------------------------------
(* Properties of overlapping calls of the Highlighter                      *)

\* C38: starting from empty storage and without a failure of the storage
\* adapter, once every call has resolved the ids of the index are the ids
\* that storage.load() returns, whatever the interleaving of the calls.
C38_IndexAndStorageAgreeWhenIdle ==
    (tasks = <<>> /\ ~hung /\ errors = 0)
    => {highlights[k].id : k \in 1..Len(highlights)}
       = {load(storage)[k].id : k \in 1..Len(load(storage))}


-----------------------------------------------------------------------------
(* Properties of the sender of a message to the PostMessageAdapter.        *)

\* C39: a pending request is settled only by a message that the target
\* window sent in reply: when handleMessage receives the adapter's own
\* outgoing request message or a message of any other window, no request
\* is resolved or rejected by it.
C39_OnlyTargetRepliesSettle ==
    [][(last'.op = "handleMessage" /\ last'.message.source # "target")
       => \A k \in 1..Len(requests) :
              requests'[k].state = requests[k].state]_vars


-----------------------------------------------------------------------------
(* Properties of overlapping removals.                                     *)

\* the calls of storage.remove(id) made so far: those still pending in the
\* adapter or in removeHighlight, and those after which onRemove(id) ran
RemovalsOf(id) ==
    Cardinality({k \in 1..Len(tasks) :
                    /\ tasks[k].t \in {"remove", "removed"}
                    /\ tasks[k].call.id = id})
    + Cardinality({k \in 1..Len(notified) : notified[k] = <<"onRemove", id>>})

\* C40: however calls of removeHighlight and clearAllHighlights interleave,
\* storage.remove is called at most once and onRemove is notified at most
\* once for every highlight id, also when removeHighlight(id) is called
\* again, or clearAllHighlights reaches the id, while an earlier
\* removeHighlight(id) is awaiting storage.
C40_RemovedAtMostOncePerId ==
    \A id \in Ids \cup {"s2"} : RemovalsOf(id) <= 1

\* C40, witness: removeHighlight(id) has been called again while the
\* storage.remove(id) of an earlier call is pending.
C40_RemoveCalledAgainWhilePending ==
    /\ last.op = "remove"
    /\ ~last.tracked
    /\ ~last.alone
    /\ \E k \in 1..Len(tasks) :
           /\ tasks[k].t \in {"remove", "removed"}
           /\ tasks[k].call.id = last.id

====
